---- MODULE Spec2Model ----
(***************************************************************************)
(* komari-agent: the traffic accounting store (monitoring/netstatic), the  *)
(* monthly reset date (utils.GetLastResetDate) and the instantaneous       *)
(* network speed (monitoring/unit/net.go), as state machines.              *)
(*                                                                         *)
(* Times are unix seconds.  Go maps are records [nil, kv]: a nil map and   *)
(* an empty map differ (JSON null / {}, a write to a nil map panics).      *)
(* A []string is a reference into nicsMem (0 is the nil slice), so that    *)
(* two slices sharing a backing array are visible as such.                 *)
(* NIC names are sequences of characters, for the prefix test of           *)
(* shouldInclude.                                                          *)
(***************************************************************************)
EXTENDS Integers, Sequences, FiniteSets, TLC

VARIABLES
    running,       \* static.go:59
    store,         \* static.go:65   [Interfaces, Config]
    config,        \* static.go:35   the effective configuration
    staticCache,   \* static.go:34
    lastCounters,  \* static.go:68
    nicsMem,       \* backing arrays of the []string values (Config.Nics)
    res,           \* the *NetStatic a caller holds from its last read
    file,          \* contents of SaveFilePath
    bak,           \* contents of SaveFilePath + ".bak"
    tmp,           \* contents of SaveFilePath + ".tmp"
    diskFaulty,    \* whether reads and writes of the file can fail
    now,           \* time.Now().Unix()
    panicked,      \* a goroutine panicked: the process is gone
    lastErr,       \* whether the last call of the API returned an error
    flags,         \* cmd/flags: MonthRotate, IncludeNics, ExcludeNics
    frame          \* the call in progress or just returned: its locals

storeVars == <<running, store, config, staticCache, lastCounters, nicsMem, res,
               file, bak, tmp, diskFaulty, now, panicked, lastErr, flags, frame>>

----------------------------------------------------------------------------
(* Bounds and program constants *)

\* The sampler rests while the cache holds MaxCache data, the flusher
\* while the store would exceed MaxStore data.
MaxCache == 1
MaxStore == 2
StartTime == 1700000000

DefaultDataPreserveDay == 31
DefaultDetectInterval == 2
DefaultSaveInterval == 600
SecondsPerDay == 86400

Eth0 == <<"e", "t", "h", "0">>
Eth1 == <<"e", "t", "h", "1">>
Nic == {Eth0, Eth1}

\* The instants the clock takes: a detect interval after the start, and the
\* instant at which a datum of StartTime + 2 is exactly one day old.
Instants == {StartTime, StartTime + DefaultDetectInterval,
             StartTime + SecondsPerDay + DefaultDetectInterval}
OldTime == StartTime - 40 * SecondsPerDay

ArrIds == 1..4

----------------------------------------------------------------------------
(* Go values *)

NilMap == [nil |-> TRUE, kv |-> <<>>]
EmptyMap == [nil |-> FALSE, kv |-> <<>>]
Keys(m) == DOMAIN m.kv
Get(m, k) == IF k \in DOMAIN m.kv THEN m.kv[k] ELSE <<>>
Put(m, k, v) ==
    [nil |-> FALSE,
     kv |-> [x \in (DOMAIN m.kv) \cup {k} |-> IF x = k THEN v ELSE m.kv[x]]]
Delete(m, k) == [m EXCEPT !.kv = [x \in (DOMAIN m.kv) \ {k} |-> m.kv[x]]]
MapOf(f) == [nil |-> FALSE, kv |-> f]

TD(ts, tx, rx) == [Timestamp |-> ts, Tx |-> tx, Rx |-> rx]

ZeroConfig ==
    [DataPreserveDay |-> 0, DetectInterval |-> 0, SaveInterval |-> 0, Nics |-> 0]
ZeroStore == [Interfaces |-> NilMap, Config |-> ZeroConfig]

RECURSIVE SumTx(_)
SumTx(arr) == IF arr = <<>> THEN 0 ELSE Head(arr).Tx + SumTx(Tail(arr))
RECURSIVE SumRx(_)
SumRx(arr) == IF arr = <<>> THEN 0 ELSE Head(arr).Rx + SumRx(Tail(arr))
Range(s) == {s[i] : i \in 1..Len(s)}

\* The globals of package netstatic, as one record, for the helpers below.
G == [running |-> running, store |-> store, config |-> config,
      staticCache |-> staticCache, lastCounters |-> lastCounters,
      mem |-> nicsMem, res |-> res, file |-> file, bak |-> bak,
      tmp |-> tmp,
      panicked |-> panicked]

\* The elements of a []string; the nil slice has none.
Elems(g, ref) == IF ref = 0 THEN <<>> ELSE g.mem[ref]

\* A fresh backing array holding `content`: <<ref, g'>>.
LiveArrs(g) ==
    ({g.config.Nics, g.store.Config.Nics}
        \cup (IF g.res.some THEN {g.res.val.Config.Nics} ELSE {})) \ {0}
NewArr(g, content) ==
    LET id == CHOOSE i \in ArrIds \ LiveArrs(g) :
                  \A j \in ArrIds \ LiveArrs(g) : i <= j
    IN  <<id, [g EXCEPT !.mem[id] = content]>>

\* Array numbers carry no meaning: renumber them in the order config,
\* store.Config, res, and forget the arrays nothing refers to.
Canon(g) ==
    LET r1 == g.config.Nics
        r2 == g.store.Config.Nics
        r3 == IF g.res.some THEN g.res.val.Config.Nics ELSE 0
        n1 == IF r1 = 0 THEN 0 ELSE 1
        n2 == IF r2 = 0 THEN 0 ELSE IF r2 = r1 THEN n1 ELSE n1 + 1
        m2 == IF n2 > n1 THEN n2 ELSE n1
        n3 == IF r3 = 0 THEN 0
              ELSE IF r3 = r1 THEN n1
              ELSE IF r3 = r2 THEN n2 ELSE m2 + 1
        old(i) == IF i = n1 /\ r1 # 0 THEN r1
                  ELSE IF i = n2 /\ r2 # 0 THEN r2
                  ELSE IF i = n3 /\ r3 # 0 THEN r3 ELSE 0
    IN  [g EXCEPT
           !.config.Nics = n1,
           !.store.Config.Nics = n2,
           !.res = IF g.res.some THEN [@ EXCEPT !.val.Config.Nics = n3] ELSE @,
           !.mem = [i \in ArrIds |->
                      IF old(i) = 0 THEN <<>> ELSE g.mem[old(i)]]]

Commit(g) ==
    LET c == Canon(g)
    IN  /\ running' = c.running
        /\ store' = c.store
        /\ config' = c.config
        /\ staticCache' = c.staticCache
        /\ lastCounters' = c.lastCounters
        /\ nicsMem' = c.mem
        /\ res' = c.res
        /\ file' = c.file
        /\ bak' = c.bak
        /\ tmp' = c.tmp
        /\ panicked' = c.panicked

NoRes == [some |-> FALSE]
\* What a read returned: a *NetStatic (val) or a map of totals.
Result(fn, val, totals) ==
    [some |-> TRUE, fn |-> fn, val |-> val, totals |-> totals]
NoFrame == [fn |-> "none"]
\* The flags as they are when none is given on the command line.
NoFlags == [MonthRotate |-> 0, IncludeNics |-> <<>>, ExcludeNics |-> <<>>]

----------------------------------------------------------------------------
(* static.go *)

isNicAllowed(g, name) ==
    \/ Len(Elems(g, g.config.Nics)) = 0
    \/ name \in Range(Elems(g, g.config.Nics))

configOrDefault(c) ==
    [c EXCEPT
       !.DataPreserveDay = IF @ = 0 THEN DefaultDataPreserveDay ELSE @,
       !.DetectInterval = IF @ = 0 THEN DefaultDetectInterval ELSE @,
       !.SaveInterval = IF @ = 0 THEN DefaultSaveInterval ELSE @]

ensureInitLocked(g) ==
    [g EXCEPT
       !.store.Interfaces = IF @.nil THEN EmptyMap ELSE @,
       !.staticCache = IF @.nil THEN EmptyMap ELSE @,
       !.config.DataPreserveDay = IF @ = 0 THEN DefaultDataPreserveDay ELSE @,
       !.config.DetectInterval = IF @ = 0 THEN DefaultDetectInterval ELSE @,
       !.config.SaveInterval = IF @ = 0 THEN DefaultSaveInterval ELSE @]

\* td.Timestamp >= cutoff, with cutoff = uint64(now - ttl): a negative
\* now - ttl converts to 2^64 + (now - ttl), above every timestamp.
AtOrAfterCutoff(ts, t, preserveDay) ==
    LET d == t - preserveDay * SecondsPerDay
    IN  d >= 0 /\ ts >= d

purgeArr(arr, t, preserveDay) ==
    LET keep(td) == AtOrAfterCutoff(td.Timestamp, t, preserveDay)
    IN  SelectSeq(arr, keep)

\* purgeExpiredLocked that removes nothing.
purgeNothing(g, t) == g

purgeExpiredLocked(g, t) ==
    LET ifs == g.store.Interfaces
        kept(n) == purgeArr(ifs.kv[n], t, g.config.DataPreserveDay)
        names == {n \in Keys(ifs) : kept(n) # <<>>}
    IN  [g EXCEPT !.store.Interfaces.kv = [n \in names |-> kept(n)]]

\* safeDelta as a plain subtraction.
plainDelta(cur, prev) == cur - prev

safeDelta(cur, prev) == IF cur >= prev THEN cur - prev ELSE 0


----------------------------------------------------------------------------
(* The file: json.Marshal / json.Unmarshal of a NetStatic *)

ZeroDoc ==
    [Interfaces |-> NilMap,
     Config |-> [DataPreserveDay |-> 0, DetectInterval |-> 0,
                 SaveInterval |-> 0, Nics |-> [nil |-> TRUE, elems |-> <<>>]]]
Absent == [kind |-> "absent", doc |-> ZeroDoc]
EmptyFile == [kind |-> "empty", doc |-> ZeroDoc]
Corrupt == [kind |-> "corrupt", doc |-> ZeroDoc]
Json(doc) == [kind |-> "json", doc |-> doc]

\* json.Marshal that writes every whitelist as null.
MarshalOmitNics(g) ==
    [Interfaces |-> g.store.Interfaces,
     Config |-> [DataPreserveDay |-> g.store.Config.DataPreserveDay,
                 DetectInterval |-> g.store.Config.DetectInterval,
                 SaveInterval |-> g.store.Config.SaveInterval,
                 Nics |-> [nil |-> TRUE, elems |-> <<>>]]]

\* json.Marshal(store): a nil map and a nil slice are written as null.
Marshal(g) ==
    [Interfaces |-> g.store.Interfaces,
     Config |-> [DataPreserveDay |-> g.store.Config.DataPreserveDay,
                 DetectInterval |-> g.store.Config.DetectInterval,
                 SaveInterval |-> g.store.Config.SaveInterval,
                 Nics |-> [nil |-> g.store.Config.Nics = 0,
                           elems |-> Elems(g, g.store.Config.Nics)]]]

\* json.Unmarshal(data, &ns) followed by store = ns: the Nics of ns are a
\* fresh array.
Unmarshal(g, doc) ==
    LET a == NewArr(g, doc.Config.Nics.elems)
        ref == IF doc.Config.Nics.nil THEN 0 ELSE a[1]
        g1 == IF doc.Config.Nics.nil THEN g ELSE a[2]
    IN  [g1 EXCEPT !.store =
           [Interfaces |-> doc.Interfaces,
            Config |-> [DataPreserveDay |-> doc.Config.DataPreserveDay,
                        DetectInterval |-> doc.Config.DetectInterval,
                        SaveInterval |-> doc.Config.SaveInterval,
                        Nics |-> ref]]]

\* What the file system does to a save: every step succeeds, or
\* os.WriteFile fails and leaves a truncated {path}.tmp, or os.Rename fails
\* and leaves the whole document in {path}.tmp (MkdirAll failing differs
\* only in leaving store.Config as it was).
SaveOutcomes ==
    IF diskFaulty THEN {"ok", "writeErr", "renameErr"} ELSE {"ok"}
OpenOutcomes == IF diskFaulty THEN {FALSE, TRUE} ELSE {FALSE}

saveToFileLocked(g, outcome) ==
    IF outcome = "mkdirErr" THEN g
    ELSE LET g1 == [g EXCEPT !.store.Config = configOrDefault(g.config)]
             b == Json(Marshal(g1))
         IN  IF outcome = "ok" THEN [g1 EXCEPT !.file = b, !.tmp = Absent]
             ELSE IF outcome = "renameErr" THEN [g1 EXCEPT !.tmp = b]
             ELSE [g1 EXCEPT !.tmp = Corrupt]

\* openErr: os.Open or io.ReadAll fails on an existing file.
\* <<g', returned an error>>
\* loadFromFileLocked that fails on a file that does not parse.
loadFromFileLockedStrict(g, t, openErr) ==
    IF g.file.kind = "absent"
    THEN LET g1 == ensureInitLocked(g)
         IN  <<[g1 EXCEPT !.store.Config = configOrDefault(g1.config)], FALSE>>
    ELSE IF openErr THEN <<g, TRUE>>
    ELSE IF g.file.kind = "empty"
    THEN LET g1 == ensureInitLocked(g)
         IN  <<[g1 EXCEPT !.store.Config = configOrDefault(g1.config)], FALSE>>
    ELSE IF g.file.kind = "corrupt"
    THEN <<g, TRUE>>
    ELSE LET g1 == Unmarshal(g, g.file.doc)
             g2 == [g1 EXCEPT !.config = configOrDefault(g1.store.Config)]
             g3 == ensureInitLocked(g2)
         IN  <<purgeExpiredLocked(g3, t), FALSE>>

loadFromFileLocked(g, t, openErr) ==
    IF g.file.kind = "absent"
    THEN LET g1 == ensureInitLocked(g)
         IN  <<[g1 EXCEPT !.store.Config = configOrDefault(g1.config)], FALSE>>
    ELSE IF openErr THEN <<g, TRUE>>
    ELSE IF g.file.kind = "empty"
    THEN LET g1 == ensureInitLocked(g)
         IN  <<[g1 EXCEPT !.store.Config = configOrDefault(g1.config)], FALSE>>
    ELSE IF g.file.kind = "corrupt"
    THEN LET g0 == [g EXCEPT !.bak = g.file, !.file = Absent]
             g1 == ensureInitLocked(g0)
         IN  <<[g1 EXCEPT !.store.Config = configOrDefault(g1.config)], FALSE>>
    ELSE LET g1 == Unmarshal(g, g.file.doc)
             g2 == [g1 EXCEPT !.config = configOrDefault(g1.store.Config)]
             g3 == ensureInitLocked(g2)
         IN  <<purgeExpiredLocked(g3, t), FALSE>>

----------------------------------------------------------------------------
(* Sampling and flushing *)

\* sampleNic that takes a missing baseline for a baseline of zero.
sampleNicFromZero(g, name, cur, ts) ==
    IF ~isNicAllowed(g, name) THEN g
    ELSE LET ok == name \in DOMAIN g.lastCounters
             dtx == IF ok THEN safeDelta(cur.Tx, g.lastCounters[name].Tx)
                    ELSE cur.Tx
             drx == IF ok THEN safeDelta(cur.Rx, g.lastCounters[name].Rx)
                    ELSE cur.Rx
             cache == IF dtx > 0 \/ drx > 0
                      THEN Put(g.staticCache, name,
                               Append(Get(g.staticCache, name), TD(ts, dtx, drx)))
                      ELSE g.staticCache
         IN  [g EXCEPT
                !.staticCache = cache,
                !.lastCounters =
                    [n \in (DOMAIN g.lastCounters) \cup {name} |->
                        IF n = name THEN cur ELSE g.lastCounters[n]]]

\* One NIC of gnet.IOCounters in sampleOnceLocked's loop.
sampleNic(g, name, cur, ts) ==
    IF ~isNicAllowed(g, name) THEN g
    ELSE LET ok == name \in DOMAIN g.lastCounters
             dtx == IF ok THEN safeDelta(cur.Tx, g.lastCounters[name].Tx) ELSE 0
             drx == IF ok THEN safeDelta(cur.Rx, g.lastCounters[name].Rx) ELSE 0
             cache == IF ok /\ (dtx > 0 \/ drx > 0)
                      THEN Put(g.staticCache, name,
                               Append(Get(g.staticCache, name), TD(ts, dtx, drx)))
                      ELSE g.staticCache
         IN  [g EXCEPT
                !.staticCache = cache,
                !.lastCounters =
                    [n \in (DOMAIN g.lastCounters) \cup {name} |->
                        IF n = name THEN cur ELSE g.lastCounters[n]]]

RECURSIVE sampleLoop(_, _, _, _)
sampleLoop(g, ios, names, ts) ==
    IF names = {} THEN g
    ELSE LET name == CHOOSE n \in names : TRUE
         IN  sampleLoop(sampleNic(g, name, ios[name], ts), ios,
                        names \ {name}, ts)

\* io: [err, counters], what gnet.IOCounters(true) returns.
sampleOnceLocked(g, io, ts) ==
    IF io.err THEN g ELSE sampleLoop(g, io.counters, DOMAIN io.counters, ts)

\* flushNic that rolls up the sent bytes only.
flushNicTxOnly(g, name, ts) ==
    LET arr == g.staticCache.kv[name]
        sumTx == SumTx(arr)
    IN  IF sumTx > 0
        THEN IF g.store.Interfaces.nil
             THEN [g EXCEPT !.panicked = TRUE]
             ELSE [g EXCEPT !.store.Interfaces =
                      Put(@, name, Append(Get(@, name), TD(ts, sumTx, 0)))]
        ELSE g

\* A write to a nil map panics.
flushNic(g, name, ts) ==
    LET arr == g.staticCache.kv[name]
        sumTx == SumTx(arr)
        sumRx == SumRx(arr)
    IN  IF sumTx > 0 \/ sumRx > 0
        THEN IF g.store.Interfaces.nil
             THEN [g EXCEPT !.panicked = TRUE]
             ELSE [g EXCEPT !.store.Interfaces =
                      Put(@, name, Append(Get(@, name), TD(ts, sumTx, sumRx)))]
        ELSE g

RECURSIVE flushLoop(_, _, _)
flushLoop(g, names, ts) ==
    IF names = {} \/ g.panicked THEN g
    ELSE LET name == CHOOSE n \in names : TRUE
         IN  flushLoop(flushNic(g, name, ts), names \ {name}, ts)

\* flushCacheLocked that clears the cache without rolling it up.
flushDropCache(g, ts) ==
    IF Keys(g.staticCache) = {} THEN g ELSE [g EXCEPT !.staticCache = EmptyMap]

flushCacheLocked(g, ts) ==
    IF Keys(g.staticCache) = {} THEN g
    ELSE LET g1 == flushLoop(g, Keys(g.staticCache), ts)
         IN  IF g1.panicked THEN g1 ELSE [g1 EXCEPT !.staticCache = EmptyMap]


----------------------------------------------------------------------------
(* The read methods (the value each returns; each also runs                *)
(* ensureInitLocked, see the read actions)                                 *)

\* inRange with the upper bound excluded.
inRangeEndExclusive(ts, start, end) ==
    (start = 0 \/ ts >= start) /\ (end = 0 \/ ts < end)

inRange(ts, start, end) ==
    (start = 0 \/ ts >= start) /\ (end = 0 \/ ts <= end)

inRangeArr(arr, start, end) ==
    LET in(td) == inRange(td.Timestamp, start, end)
    IN  SelectSeq(arr, in)

\* add of GetTotalTraffic[Between]: res[name] += (tx, rx); a missing key
\* reads as the zero TrafficData.
addTotal(r, name, tx, rx) ==
    LET cur == IF name \in DOMAIN r THEN r[name] ELSE TD(0, 0, 0)
    IN  [n \in (DOMAIN r) \cup {name} |->
            IF n = name THEN TD(cur.Timestamp, cur.Tx + tx, cur.Rx + rx)
            ELSE r[n]]

\* One of the two loops of GetTotalTrafficBetween, over the map m.
RECURSIVE totalsBetweenLoop(_, _, _, _, _)
totalsBetweenLoop(r, m, names, start, end) ==
    IF names = {} THEN r
    ELSE LET name == CHOOSE n \in names : TRUE
             arr == inRangeArr(m.kv[name], start, end)
             tx == SumTx(arr)
             rx == SumRx(arr)
             r1 == IF tx > 0 \/ rx > 0 THEN addTotal(r, name, tx, rx) ELSE r
         IN  totalsBetweenLoop(r1, m, names \ {name}, start, end)

GetTotalTrafficBetween(g, start, end) ==
    LET r1 == totalsBetweenLoop(<<>>, g.store.Interfaces,
                                Keys(g.store.Interfaces), start, end)
    IN  totalsBetweenLoop(r1, g.staticCache, Keys(g.staticCache), start, end)

\* One loop of GetTotalTraffic, over the map m.
RECURSIVE totalsLoop(_, _, _)
totalsLoop(r, m, names) ==
    IF names = {} THEN r
    ELSE LET name == CHOOSE n \in names : TRUE
         IN  totalsLoop(addTotal(r, name, SumTx(m.kv[name]), SumRx(m.kv[name])),
                        m, names \ {name})

GetTotalTraffic(g) ==
    LET r1 == totalsLoop(<<>>, g.store.Interfaces, Keys(g.store.Interfaces))
    IN  totalsLoop(r1, g.staticCache, Keys(g.staticCache))

\* GetNetStatic: each persisted sequence is copied into a new slice and the
\* cached data are appended to the copy; Config is the struct
\* configOrDefault returns, whose Nics is the slice header of config.Nics.
GetNetStatic(g) ==
    LET copied == [n \in Keys(g.store.Interfaces) |-> g.store.Interfaces.kv[n]]
        merged == [n \in (DOMAIN copied) \cup Keys(g.staticCache) |->
                     (IF n \in DOMAIN copied THEN copied[n] ELSE <<>>)
                        \o Get(g.staticCache, n)]
    IN  [Interfaces |-> MapOf(merged), Config |-> configOrDefault(g.config)]

GetNetStaticBetween(g, start, end) ==
    LET ps(n) == inRangeArr(Get(g.store.Interfaces, n), start, end)
        cs(n) == inRangeArr(Get(g.staticCache, n), start, end)
        names == {n \in Keys(g.store.Interfaces) : ps(n) # <<>>}
                    \cup {n \in Keys(g.staticCache) : cs(n) # <<>>}
    IN  [Interfaces |-> MapOf([n \in names |-> ps(n) \o cs(n)]),
         Config |-> configOrDefault(g.config)]

----------------------------------------------------------------------------
(* Inputs *)

Counters(tx0, rx0, tx1, rx1) ==
    [err |-> FALSE,
     counters |-> [n \in Nic |-> IF n = Eth0 THEN [Tx |-> tx0, Rx |-> rx0]
                                            ELSE [Tx |-> tx1, Rx |-> rx1]]]
\* gnet.IOCounters(true) as the store's life needs it: traffic on both NICs
\* (Eth0 sends, Eth1 receives), and counters that fall back to zero.
CoarseIO == {Counters(0, 0, 0, 0), Counters(1, 0, 0, 1)}

NilNics == [nil |-> TRUE, elems |-> <<>>]
NicsOf(seq) == [nil |-> FALSE, elems |-> seq]
NewCfg(p, d, s, nics) ==
    [DataPreserveDay |-> p, DetectInterval |-> d, SaveInterval |-> s,
     Nics |-> nics]
\* The arguments of SetNewConfig.
NewCfgs ==
    {NewCfg(0, 0, 0, NilNics),
     NewCfg(1, 5, 60, NicsOf(<<Eth0>>)),
     NewCfg(0, 0, 0, NicsOf(<<>>))}

\* The arguments of ForceReplaceRecord.
Records ==
    {NilMap,
     MapOf([n \in {Eth1} |-> <<TD(OldTime, 1, 1), TD(StartTime, 2, 0)>>])}

\* What SaveFilePath holds when the process starts.
InitFiles ==
    {Absent, EmptyFile, Corrupt,
     Json([Interfaces |->
              MapOf([n \in {Eth1} |-> <<TD(OldTime, 1, 1), TD(StartTime, 0, 1)>>]),
           Config |-> NewCfg(DefaultDataPreserveDay, DefaultDetectInterval,
                             DefaultSaveInterval, NicsOf(<<Eth0>>))])}

RECURSIVE SizeOver(_, _)
SizeOver(m, names) ==
    IF names = {} THEN 0
    ELSE LET n == CHOOSE x \in names : TRUE
         IN  Len(m.kv[n]) + SizeOver(m, names \ {n})
Size(m) == SizeOver(m, Keys(m))

----------------------------------------------------------------------------
(* The operations of package netstatic *)

\* The package's variables when the process starts.
InitGlobals ==
    /\ running = FALSE
    /\ store = ZeroStore
    /\ config = ZeroConfig
    /\ staticCache = NilMap
    /\ lastCounters = <<>>
    /\ nicsMem = [i \in ArrIds |-> <<>>]
    /\ res = NoRes
    /\ bak = Absent
    /\ tmp = Absent
    /\ panicked = FALSE
    /\ lastErr = FALSE

InitStore == InitGlobals /\ now = StartTime

\* The sampling goroutine's tick (static.go:254-257).
\* The body of the sampler goroutine on a tick of detectTicker.
sample(IOs) ==
    /\ ~panicked /\ running
    /\ Size(staticCache) < MaxCache
    /\ \E io \in IOs :
          Commit(sampleOnceLocked(G, io, now))
    /\ UNCHANGED <<lastErr, now, diskFaulty, flags>>

samplerTick(IOs) == sample(IOs) /\ UNCHANGED frame

\* The instant a save tick carries: the flusher rolls the cache up under the
\* tick's time, which is the present or, when the tick waited for the lock,
\* an earlier instant.
TickTimes == {t \in Instants : t <= now}

flusherTick ==
    /\ ~panicked /\ running
    /\ Size(store.Interfaces) + Cardinality(Keys(staticCache)) <= MaxStore
    /\ \E t \in TickTimes, outcome \in SaveOutcomes :
          LET g1 == flushCacheLocked(G, t)
              g2 == IF g1.panicked THEN g1
                    ELSE saveToFileLocked(purgeExpiredLocked(g1, now), outcome)
          IN  Commit(g2)
    /\ UNCHANGED lastErr
    /\ UNCHANGED <<now, diskFaulty, flags, frame>>

\* StartOrContinue on a store that is not running: <<g', err>>.
startLocked(g, t, openErr) ==
    LET l == loadFromFileLocked(ensureInitLocked(g), t, openErr)
    IN  IF l[2] THEN l ELSE <<[l[1] EXCEPT !.running = TRUE], FALSE>>

StartOrContinue ==
    /\ ~panicked
    /\ IF running
       THEN /\ lastErr' = FALSE
            /\ UNCHANGED <<running, store, config, staticCache, lastCounters,
                           nicsMem, res, file, bak, tmp, panicked>>
       ELSE \E openErr \in OpenOutcomes :
              LET l == startLocked(G, now, openErr)
              IN  /\ Commit(l[1])
                  /\ lastErr' = l[2]
    /\ UNCHANGED <<now, diskFaulty, flags, frame>>

Clear ==
    /\ ~panicked
    /\ Commit([ensureInitLocked(G) EXCEPT
                 !.store.Interfaces = EmptyMap,
                 !.staticCache = EmptyMap,
                 !.lastCounters = <<>>])
    /\ lastErr' = FALSE
    /\ UNCHANGED <<now, diskFaulty, flags, frame>>

Stop ==
    /\ ~panicked
    /\ Size(store.Interfaces) + Cardinality(Keys(staticCache)) <= MaxStore
    /\ IF ~running
       THEN /\ lastErr' = FALSE
            /\ UNCHANGED <<running, store, config, staticCache, lastCounters,
                           nicsMem, res, file, bak, tmp, panicked>>
       ELSE \E outcome \in SaveOutcomes :
              LET g0 == [G EXCEPT !.running = FALSE]
                  g1 == flushCacheLocked(g0, now)
                  g2 == IF g1.panicked THEN g1
                        ELSE saveToFileLocked(purgeExpiredLocked(g1, now), outcome)
              IN  /\ Commit(g2)
                  /\ lastErr' = (~g2.panicked /\ outcome # "ok")
    /\ UNCHANGED <<now, diskFaulty, flags, frame>>

\* static.go:502-518: with a whitelist, drop the baselines and the cache of
\* the NICs outside it.
dropNotAllowed(g) ==
    LET nics == Elems(g, g.config.Nics)
    IN  IF Len(nics) > 0
        THEN [g EXCEPT
                !.lastCounters =
                    [n \in (DOMAIN @) \cap Range(nics) |-> @[n]],
                !.staticCache.kv =
                    [n \in (DOMAIN @) \cap Range(nics) |-> @[n]]]
        ELSE g

\* mergeConfig that assigns the numeric fields whatever their value.
mergeConfigAssignZero(g, newCfg) ==
    LET g1 == [g EXCEPT
                 !.store.Config.DataPreserveDay = newCfg.DataPreserveDay,
                 !.store.Config.DetectInterval = newCfg.DetectInterval,
                 !.store.Config.SaveInterval = newCfg.SaveInterval]
        a == NewArr(g1, newCfg.Nics.elems)
        g2 == IF newCfg.Nics.nil THEN g1
              ELSE [a[2] EXCEPT !.store.Config.Nics = a[1]]
        cfg == configOrDefault(g2.store.Config)
    IN  [g2 EXCEPT !.store.Config = cfg, !.config = cfg]

\* static.go:463-482.
mergeConfig(g, newCfg) ==
    LET g1 == [g EXCEPT
                 !.store.Config.DataPreserveDay =
                     IF newCfg.DataPreserveDay # 0 THEN newCfg.DataPreserveDay ELSE @,
                 !.store.Config.DetectInterval =
                     IF newCfg.DetectInterval # 0 THEN newCfg.DetectInterval ELSE @,
                 !.store.Config.SaveInterval =
                     IF newCfg.SaveInterval # 0 THEN newCfg.SaveInterval ELSE @]
        a == NewArr(g1, newCfg.Nics.elems)
        g2 == IF newCfg.Nics.nil THEN g1
              ELSE [a[2] EXCEPT !.store.Config.Nics = a[1]]
        cfg == configOrDefault(g2.store.Config)
    IN  [g2 EXCEPT !.store.Config = cfg, !.config = cfg]

SetNewConfig(Cfgs) ==
    /\ ~panicked
    /\ \E newCfg \in Cfgs, outcome \in SaveOutcomes :
          LET g1 == mergeConfig(ensureInitLocked(G), newCfg)
              g2 == IF g1.running THEN dropNotAllowed(g1) ELSE g1
              g3 == saveToFileLocked(g2, outcome)
          IN  Commit(purgeExpiredLocked(g3, now))
    /\ lastErr' = FALSE
    /\ UNCHANGED <<now, diskFaulty, flags, frame>>

ForceReplaceRecord(Recs) ==
    /\ ~panicked
    /\ \E rec \in Recs :
          LET g1 == [ensureInitLocked(G) EXCEPT !.store.Interfaces = rec]
          IN  Commit(purgeExpiredLocked(g1, now))
    /\ lastErr' = FALSE
    /\ UNCHANGED <<now, diskFaulty, flags, frame>>

\* Time passes.
AdvanceClock ==
    /\ \E t \in Instants : t > now /\ now' = t
    /\ UNCHANGED lastErr
    /\ UNCHANGED <<running, store, config, staticCache, lastCounters, nicsMem,
                   res, file, bak, tmp, diskFaulty, panicked, flags, frame>>

----------------------------------------------------------------------------
(* Spec: the life of the store, on a disk that does not fail *)

vars == storeVars

Init ==
    /\ InitStore
    /\ file \in InitFiles
    /\ diskFaulty = FALSE
    /\ flags = NoFlags
    /\ frame = NoFrame

Next ==
    \/ samplerTick(CoarseIO)
    \/ flusherTick
    \/ StartOrContinue
    \/ Clear
    \/ Stop
    \/ SetNewConfig(NewCfgs)
    \/ ForceReplaceRecord(Records)
    \/ AdvanceClock

Spec == Init /\ [][Next]_vars


----------------------------------------------------------------------------
(* Claims about the store *)

\* The store as its package sees it, slices read through to their elements.
Internal ==
    [store |-> [store EXCEPT !.Config.Nics = Elems(G, store.Config.Nics)],
     config |-> [config EXCEPT !.Nics = Elems(G, config.Nics)],
     staticCache |-> staticCache,
     lastCounters |-> lastCounters]

Whitelist == Elems(G, config.Nics)
Data(m) == UNION {Range(m.kv[n]) : n \in Keys(m)}

\* C1: with a non-empty NIC whitelist W configured, every key of the
\* persistent store's interface map and of the cache is a member of W.
C1_KeysWithinWhitelist ==
    Len(Whitelist) > 0 =>
        (Keys(store.Interfaces) \cup Keys(staticCache)) \subseteq Range(Whitelist)

\* C3: after a flush (the save tick, or the flush of Stop on a running
\* store) the persistent store holds no datum with
\* timestamp < now - preserve_days * 86400, preserve_days being the
\* effective configuration's.
C3_NoExpiredAfterFlush ==
    [][(flusherTick \/ (running /\ Stop)) =>
         \A td \in Data(store'.Interfaces) :
             td.Timestamp >= now' - config'.DataPreserveDay * SecondsPerDay]_vars

\* C3 happens: the clock is a day past a datum that a flush or a Stop at
\* this instant left in the store (the file holds the same store), the
\* datum being exactly at the cutoff of a one day retention.
C3_Witness ==
    /\ config.DataPreserveDay = 1
    /\ file = Json(Marshal(G))
    /\ Keys(staticCache) = {}
    /\ \E td \in Data(store.Interfaces) :
          td.Timestamp = now - config.DataPreserveDay * SecondsPerDay
    /\ \E td \in Data(store.Interfaces) : td.Timestamp = now

\* The bounds a caller asks totals between.
QueryTimes == {0, OldTime} \cup Instants

RECURSIVE SumWithin(_, _, _, _)
SumWithin(arr, a, b, tx) ==
    IF arr = <<>> THEN 0
    ELSE (IF /\ (a = 0 \/ a <= Head(arr).Timestamp)
             /\ (b = 0 \/ Head(arr).Timestamp <= b)
          THEN (IF tx THEN Head(arr).Tx ELSE Head(arr).Rx)
          ELSE 0) + SumWithin(Tail(arr), a, b, tx)

TotalOf(r, n) == IF n \in DOMAIN r THEN r[n] ELSE TD(0, 0, 0)

\* C4: GetTotalTrafficBetween(a, b) is, for each NIC, the sum of tx and of
\* rx over the persisted and the cached data of the NIC with a <= ts <= b,
\* both ends inclusive, 0 meaning no bound on that side.
C4_TotalBetweenIsInclusiveSum ==
    \A a \in QueryTimes, b \in QueryTimes, n \in Nic :
        LET r == GetTotalTrafficBetween(ensureInitLocked(G), a, b)
            all == Get(store.Interfaces, n) \o Get(staticCache, n)
        IN  /\ TotalOf(r, n).Tx = SumWithin(all, a, b, TRUE)
            /\ TotalOf(r, n).Rx = SumWithin(all, a, b, FALSE)

\* C4 happens: a NIC with persisted and cached data, some of it on the
\* bounds asked for and counted, some of it outside and not counted.
C4_Witness ==
    \E n \in Nic, a \in Instants, b \in Instants :
        LET ps == Get(store.Interfaces, n)
            cs == Get(staticCache, n)
            r == GetTotalTrafficBetween(ensureInitLocked(G), a, b)
        IN  /\ a < b
            /\ \E td \in Range(ps) : td.Timestamp = a
            /\ \E td \in Range(cs) : td.Timestamp = b
            /\ \E td \in Range(ps) : td.Timestamp < a
            /\ TotalOf(r, n).Tx + TotalOf(r, n).Rx
                 < SumTx(ps \o cs) + SumRx(ps \o cs)
            /\ TotalOf(r, n).Tx + TotalOf(r, n).Rx >= 2

\* A start of the store from a file that gives no store: missing,
\* zero-length, or not parsing as JSON.
StartFromUnusableFile ==
    /\ ~running /\ ~panicked
    /\ file.kind \in {"corrupt", "absent", "empty"}
    /\ StartOrContinue

----------------------------------------------------------------------------
(* The sampler on counters that wrap and reset *)

\* A kernel counter close to its wrap: CounterWrap stands for 2^32.
CounterWrap == 1073741824
CounterValues == {0, 50, CounterWrap - 100}

\* gnet.IOCounters(true): a failure, or Eth0 with each counter at one of
\* CounterValues and Eth1 idle.
FineIO ==
    {[err |-> TRUE, counters |-> <<>>]}
        \cup {Counters(t, r, 0, 0) : t \in CounterValues, r \in CounterValues}

\* A tick of the sampler; the frame keeps the reading and the baselines
\* the tick started from.
sampleOnFineIO ==
    /\ ~panicked /\ running
    /\ Size(staticCache) < MaxCache
    /\ \E io \in FineIO :
          /\ Commit(sampleOnceLocked(G, io, now))
          /\ frame' = [fn |-> "sampleOnceLocked", io |-> io,
                       prev |-> lastCounters]
    /\ UNCHANGED <<lastErr, now, diskFaulty, flags>>

InitSample ==
    /\ InitStore
    /\ file = Absent
    /\ diskFaulty = FALSE
    /\ flags = NoFlags
    /\ frame = NoFrame

NextSample ==
    \/ StartOrContinue
    \/ sampleOnFineIO
    \/ Clear

SpecSample == InitSample /\ [][NextSample]_vars

\* The data a step appended to the cache for the NIC n.
Appended(n) ==
    SubSeq(Get(staticCache', n), Len(Get(staticCache, n)) + 1,
           Len(Get(staticCache', n)))

Max0(x) == IF x > 0 THEN x ELSE 0

\* C5: a sampling tick accounts, for a NIC with a baseline p and a reading
\* c, max(0, c.tx - p.tx) and max(0, c.rx - p.rx), each direction on its
\* own: a counter below its baseline adds exactly 0 for that direction.
C5_SampleAddsSafeDelta ==
    [][sampleOnFineIO =>
         \A n \in Nic :
            LET p == lastCounters[n]
                c == frame'.io.counters[n]
            IN  (/\ ~frame'.io.err
                 /\ n \in DOMAIN lastCounters
                 /\ isNicAllowed(G, n))
                => /\ SumTx(Appended(n)) = Max0(c.Tx - p.Tx)
                   /\ SumRx(Appended(n)) = Max0(c.Rx - p.Rx)
                   /\ Len(Appended(n)) <= 1
                   /\ \A i \in 1..Len(Appended(n)) :
                         Appended(n)[i].Timestamp = now]_vars

\* C5 happens: a tick whose tx reading (50) is below the baseline
\* (CounterWrap - 100) while rx grew: the datum appended counts the rx
\* bytes and no tx byte.
C5_Witness ==
    /\ frame.fn = "sampleOnceLocked"
    /\ ~frame.io.err
    /\ Eth0 \in DOMAIN frame.prev
    /\ frame.prev[Eth0].Tx = CounterWrap - 100
    /\ frame.io.counters[Eth0].Tx = 50
    /\ frame.prev[Eth0].Rx < frame.io.counters[Eth0].Rx
    /\ Len(Get(staticCache, Eth0)) = 1
    /\ Get(staticCache, Eth0)[1].Tx = 0
    /\ Get(staticCache, Eth0)[1].Rx
          = frame.io.counters[Eth0].Rx - frame.prev[Eth0].Rx

----------------------------------------------------------------------------
(* Reads, and a caller that writes into what it was handed *)

\* The (start, end) a caller reads between.
QueryRanges == {<<0, 0>>, <<StartTime, StartTime + DefaultDetectInterval>>}

ReadGetNetStatic ==
    /\ ~panicked
    /\ LET g == ensureInitLocked(G)
       IN  Commit([g EXCEPT !.res = Result("GetNetStatic", GetNetStatic(g), <<>>)])
    /\ lastErr' = FALSE
    /\ UNCHANGED <<now, diskFaulty, flags, frame>>

ReadGetNetStaticBetween ==
    /\ ~panicked
    /\ \E q \in QueryRanges :
          LET g == ensureInitLocked(G)
          IN  Commit([g EXCEPT !.res =
                        Result("GetNetStaticBetween",
                               GetNetStaticBetween(g, q[1], q[2]), <<>>)])
    /\ lastErr' = FALSE
    /\ UNCHANGED <<now, diskFaulty, flags, frame>>

ReadGetTotalTraffic ==
    /\ ~panicked
    /\ LET g == ensureInitLocked(G)
       IN  Commit([g EXCEPT !.res =
                     Result("GetTotalTraffic", ZeroStore, GetTotalTraffic(g))])
    /\ lastErr' = FALSE
    /\ UNCHANGED <<now, diskFaulty, flags, frame>>

ReadGetTotalTrafficBetween ==
    /\ ~panicked
    /\ \E q \in QueryRanges :
          LET g == ensureInitLocked(G)
          IN  Commit([g EXCEPT !.res =
                        Result("GetTotalTrafficBetween", ZeroStore,
                               GetTotalTrafficBetween(g, q[1], q[2]))])
    /\ lastErr' = FALSE
    /\ UNCHANGED <<now, diskFaulty, flags, frame>>

\* The value a caller marks a datum it was handed with.
Scribble == 7

\* The caller assigns to an element of result.Config.Nics.
WriteResultNics ==
    /\ res.some /\ res.val.Config.Nics # 0
    /\ \E i \in 1..Len(nicsMem[res.val.Config.Nics]), name \in Nic :
          /\ nicsMem[res.val.Config.Nics][i] # name
          /\ nicsMem' = [nicsMem EXCEPT ![res.val.Config.Nics][i] = name]
    /\ UNCHANGED <<running, store, config, staticCache, lastCounters, res,
                   file, bak, tmp, diskFaulty, now, panicked, lastErr, flags, frame>>

\* The caller assigns to an element of a sequence of result.Interfaces.
WriteResultData ==
    /\ res.some
    /\ \E n \in Keys(res.val.Interfaces) :
          \E i \in 1..Len(res.val.Interfaces.kv[n]) :
             /\ res.val.Interfaces.kv[n][i].Tx # Scribble
             /\ res' = [res EXCEPT !.val.Interfaces.kv[n][i].Tx = Scribble]
    /\ UNCHANGED <<running, store, config, staticCache, lastCounters, nicsMem,
                   file, bak, tmp, diskFaulty, now, panicked, lastErr, flags, frame>>

\* The caller assigns to an entry of a map of totals.
WriteResultTotals ==
    /\ res.some
    /\ \E n \in DOMAIN res.totals :
          /\ res.totals[n].Tx # Scribble
          /\ res' = [res EXCEPT !.totals[n].Tx = Scribble]
    /\ UNCHANGED <<running, store, config, staticCache, lastCounters, nicsMem,
                   file, bak, tmp, diskFaulty, now, panicked, lastErr, flags, frame>>

InitRead ==
    /\ InitStore
    /\ file \in InitFiles
    /\ diskFaulty = FALSE
    /\ flags = NoFlags
    /\ frame = NoFrame

NextRead ==
    \/ StartOrContinue
    \/ SetNewConfig(NewCfgs)
    \/ samplerTick(CoarseIO)
    \/ ReadGetNetStatic
    \/ ReadGetNetStaticBetween
    \/ ReadGetTotalTraffic
    \/ ReadGetTotalTrafficBetween
    \/ WriteResultNics
    \/ WriteResultData
    \/ WriteResultTotals

SpecRead == InitRead /\ [][NextRead]_vars

\* What the reads return in a state, slices read through to their elements.
Returned(v) == [v EXCEPT !.Config.Nics = Elems(G, v.Config.Nics)]
ReadsNow ==
    LET g == ensureInitLocked(G)
    IN  <<Returned(GetNetStatic(g)),
          [q \in QueryRanges |-> Returned(GetNetStaticBetween(g, q[1], q[2]))],
          GetTotalTraffic(g),
          [q \in QueryRanges |-> GetTotalTrafficBetween(g, q[1], q[2])]>>

\* C2: a write of the caller into a result of a read (an element of a
\* returned sequence, an entry of returned totals, an element of the
\* returned Config.Nics) changes neither the store, the cache and the
\* effective configuration nor what a read returns afterwards.
C2_ResultsAreDeepCopies ==
    [][(WriteResultNics \/ WriteResultData \/ WriteResultTotals) =>
         /\ Internal' = Internal
         /\ ReadsNow' = ReadsNow]_vars

----------------------------------------------------------------------------
(* The monthly reset date: utils.GetLastResetDate *)

\* time.Time values are unix seconds in a Location without offset changes
\* (UTC); time.Date, Time.AddDate and the Year, Month and Day accessors
\* are computed through the count of days since the epoch, as package time
\* does.
IsLeap(y) == y % 4 = 0 /\ (y % 100 # 0 \/ y % 400 = 0)

daysBefore == <<0, 31, 59, 90, 120, 151, 181, 212, 243, 273, 304, 334, 365>>

DaysSinceEpoch(year) ==
    365 * (year - 1970) + ((year - 1969) \div 4) - ((year - 1901) \div 100)
        + ((year - 1601) \div 400)

\* The day of the year (from 0) the month m begins at.
MonthStart(year, m) ==
    daysBefore[m] + (IF IsLeap(year) /\ m >= 3 THEN 1 ELSE 0)

\* time.Date(year, month, day, 0, 0, 0, 0, loc): month and day may lie
\* outside their range and are normalised.
Date(year, month, day) ==
    LET y == year + ((month - 1) \div 12)
        m == ((month - 1) % 12) + 1
    IN  (DaysSinceEpoch(y) + MonthStart(y, m) + day - 1) * SecondsPerDay

Year(t) ==
    LET d == t \div SecondsPerDay
    IN  CHOOSE y \in (1970 + (d \div 366))..(1970 + (d \div 365)) :
            DaysSinceEpoch(y) <= d /\ d < DaysSinceEpoch(y + 1)

YearDay(t) == (t \div SecondsPerDay) - DaysSinceEpoch(Year(t))

Month(t) ==
    CHOOSE m \in 1..12 :
        /\ MonthStart(Year(t), m) <= YearDay(t)
        /\ YearDay(t) < MonthStart(Year(t), m + 1)

Day(t) == YearDay(t) - MonthStart(Year(t), Month(t)) + 1

\* t.AddDate(0, 0, days)
AddDays(t, days) ==
    Date(Year(t), Month(t), Day(t) + days) + (t % SecondsPerDay)

\* getActualResetDate with the reset clamped to the last day of the month.
getActualResetDateClamped(year, month, resetDay) ==
    LET lastDayOfMonth == Day(AddDays(Date(year, month + 1, 1), -1))
    IN  IF resetDay <= lastDayOfMonth
        THEN Date(year, month, resetDay)
        ELSE Date(year, month, lastDayOfMonth)

getActualResetDate(year, month, resetDay) ==
    LET firstDayOfNextMonth == Date(year, month + 1, 1)
        lastDayOfMonth == Day(AddDays(firstDayOfNextMonth, -1))
        nextMonth == IF month + 1 > 12 THEN 1 ELSE month + 1
        nextYear == IF month + 1 > 12 THEN year + 1 ELSE year
    IN  IF resetDay <= lastDayOfMonth
        THEN Date(year, month, resetDay)
        ELSE Date(nextYear, nextMonth, 1)

\* GetLastResetDate taking this month's reset only once it is past.
GetLastResetDateAfter(resetDay, currentDate) ==
    IF resetDay < 1 \/ resetDay > 31 THEN currentDate
    ELSE LET currentYear == Year(currentDate)
             currentMonth == Month(currentDate)
             thisMonth == getActualResetDate(currentYear, currentMonth, resetDay)
             prevMonth == IF currentMonth - 1 < 1 THEN 12 ELSE currentMonth - 1
             prevYear == IF currentMonth - 1 < 1 THEN currentYear - 1
                         ELSE currentYear
         IN  IF currentDate > thisMonth THEN thisMonth
             ELSE getActualResetDate(prevYear, prevMonth, resetDay)

\* GetLastResetDate looking for the month before January in the same year.
GetLastResetDateSameYear(resetDay, currentDate) ==
    IF resetDay < 1 \/ resetDay > 31 THEN currentDate
    ELSE LET currentYear == Year(currentDate)
             currentMonth == Month(currentDate)
             thisMonth == getActualResetDate(currentYear, currentMonth, resetDay)
             prevMonth == IF currentMonth - 1 < 1 THEN 12 ELSE currentMonth - 1
         IN  IF ~(currentDate < thisMonth) THEN thisMonth
             ELSE getActualResetDate(currentYear, prevMonth, resetDay)

GetLastResetDate(resetDay, currentDate) ==
    IF resetDay < 1 \/ resetDay > 31 THEN currentDate
    ELSE LET currentYear == Year(currentDate)
             currentMonth == Month(currentDate)
             actualResetDateThisMonth ==
                 getActualResetDate(currentYear, currentMonth, resetDay)
             prevMonth == IF currentMonth - 1 < 1 THEN 12 ELSE currentMonth - 1
             prevYear == IF currentMonth - 1 < 1 THEN currentYear - 1
                         ELSE currentYear
         IN  IF ~(currentDate < actualResetDateThisMonth)
             THEN actualResetDateThisMonth
             ELSE getActualResetDate(prevYear, prevMonth, resetDay)

\* The clock of the reset date's life: from 2023-12-01 00:00, half a day
\* at a time, over ClockDays days: a year end, a leap February and a
\* common one.
ClockDays == 457
ClockStart == Date(2023, 12, 1)
HalfDay == SecondsPerDay \div 2
\* --month-rotate: the days of a month, and a value on either side.
ResetDays == 0..32

\* utils.GetLastResetDate(flags.MonthRotate, time.Now()), as NetworkSpeed
\* calls it on every report.
CallGetLastResetDate ==
    /\ IF frame.fn = "none" THEN TRUE ELSE frame.currentDate < now
    /\ frame' =
         [fn |-> "GetLastResetDate",
          resetDay |-> flags.MonthRotate,
          currentDate |-> now,
          actualResetDateThisMonth |->
              IF flags.MonthRotate < 1 \/ flags.MonthRotate > 31 THEN 0
              ELSE getActualResetDate(Year(now), Month(now), flags.MonthRotate),
          ret |-> GetLastResetDate(flags.MonthRotate, now)]
    /\ UNCHANGED <<running, store, config, staticCache, lastCounters, nicsMem,
                   res, file, bak, tmp, diskFaulty, now, panicked, lastErr, flags>>

HalfDayPasses ==
    /\ frame.fn = "GetLastResetDate" /\ frame.currentDate = now
    /\ now + HalfDay <= ClockStart + ClockDays * SecondsPerDay
    /\ now' = now + HalfDay
    /\ UNCHANGED <<running, store, config, staticCache, lastCounters, nicsMem,
                   res, file, bak, tmp, diskFaulty, panicked, lastErr, flags, frame>>

InitReset ==
    /\ InitGlobals
    /\ file = Absent
    /\ diskFaulty = FALSE
    /\ now = ClockStart
    /\ flags \in {[NoFlags EXCEPT !.MonthRotate = d] : d \in ResetDays}
    /\ frame = NoFrame

NextReset ==
    \/ CallGetLastResetDate
    \/ HalfDayPasses

SpecReset == InitReset /\ [][NextReset]_vars

\* The calendar, from its table: the length of each month and the midnight
\* a day begins at, counted from 2023-01-01 (day 19358 of the epoch).
MonthLen(y, m) ==
    IF m = 2 THEN (IF IsLeap(y) THEN 29 ELSE 28)
    ELSE IF m \in {4, 6, 9, 11} THEN 30 ELSE 31

RECURSIVE DaysToYear(_)
DaysToYear(y) ==
    IF y = 2023 THEN 0
    ELSE DaysToYear(y - 1) + (IF IsLeap(y - 1) THEN 366 ELSE 365)

RECURSIVE DaysToMonth(_, _)
DaysToMonth(y, m) ==
    IF m = 1 THEN 0 ELSE DaysToMonth(y, m - 1) + MonthLen(y, m - 1)

Midnight(y, m, d) ==
    (19358 + DaysToYear(y) + DaysToMonth(y, m) + d - 1) * SecondsPerDay

CalendarMonths == (2023..2025) \X (1..12)

\* The reset instant of a month: 00:00 of the reset day, or of day 1 of the
\* following month when the month lacks the day.
ResetInstant(y, m, resetDay) ==
    IF resetDay <= MonthLen(y, m) THEN Midnight(y, m, resetDay)
    ELSE Midnight(y, m, 1) + MonthLen(y, m) * SecondsPerDay

ResetInstants ==
    [d \in 1..31 |-> {ResetInstant(ym[1], ym[2], d) : ym \in CalendarMonths}]

\* The month an instant lies in.
MonthOf ==
    [t \in {ClockStart + k * HalfDay : k \in 0..(2 * ClockDays)} |->
        CHOOSE ym \in CalendarMonths :
            /\ Midnight(ym[1], ym[2], 1) <= t
            /\ t < Midnight(ym[1], ym[2], 1)
                     + MonthLen(ym[1], ym[2]) * SecondsPerDay]

Returned_GetLastResetDate ==
    frame.fn = "GetLastResetDate" /\ frame.resetDay \in 1..31

\* C7: for a reset day in 1..31, GetLastResetDate(reset_day, now) is the
\* most recent reset instant at or before now: it is a reset instant, it
\* is not later than now, and no reset instant lies after it and at or
\* before now (so a now that is a reset instant is returned itself).
\* Reset day 1 at 2024-03-01 00:00 gives 2024-03-01 00:00; reset day 15
\* gives 2024-02-15 at 2024-03-10 and 2024-03-15 at 2024-03-20.
C7_LastResetIsMostRecent ==
    Returned_GetLastResetDate =>
        /\ frame.ret \in ResetInstants[frame.resetDay]
        /\ frame.ret <= frame.currentDate
        /\ \A x \in ResetInstants[frame.resetDay] :
              ~(frame.ret < x /\ x <= frame.currentDate)
        /\ (frame.resetDay = 1 /\ frame.currentDate = Midnight(2024, 3, 1))
              => frame.ret = Midnight(2024, 3, 1)
        /\ (frame.resetDay = 15 /\ frame.currentDate = Midnight(2024, 3, 10))
              => frame.ret = Midnight(2024, 2, 15)
        /\ (frame.resetDay = 15 /\ frame.currentDate = Midnight(2024, 3, 20))
              => frame.ret = Midnight(2024, 3, 15)

\* C7 happens: the call with reset day 1 at 2024-03-01 00:00:00 UTC
\* (1709251200), an instant that is itself a reset instant.
C7_Witness ==
    /\ Returned_GetLastResetDate
    /\ frame.resetDay = 1
    /\ frame.currentDate = 1709251200
    /\ frame.currentDate = Midnight(2024, 3, 1)
    /\ frame.ret = frame.currentDate

\* C8: GetLastResetDate is monotone in now: a call at a later instant with
\* the same reset day in 1..31 returns no earlier a date, across month
\* ends, year ends and months shorter than the reset day.
C8_LastResetIsMonotone ==
    [][(Returned_GetLastResetDate /\ CallGetLastResetDate) =>
         /\ frame'.resetDay = frame.resetDay
         /\ frame.currentDate <= frame'.currentDate
         /\ frame.ret <= frame'.ret]_vars

\* C8 happens: the call on the noon of 2024-01-01 with reset day 31, the
\* one after the call at 2024-01-01 00:00, returns 2023-12-31, a date of
\* the year before.
C8_Witness ==
    /\ Returned_GetLastResetDate
    /\ frame.resetDay = 31
    /\ frame.currentDate = Midnight(2024, 1, 1) + HalfDay
    /\ frame.ret = Midnight(2023, 12, 31)

\* C9: when the month of now has fewer days than the reset day, the reset
\* date computed for that month is 00:00 of day 1 of the following month;
\* with reset day 31 in a month of 30 days it is day 1 of the next month.
C9_ShortMonthRollsForward ==
    Returned_GetLastResetDate =>
        LET ym == MonthOf[frame.currentDate]
            first == Midnight(ym[1], ym[2], 1)
            len == MonthLen(ym[1], ym[2])
        IN  /\ frame.resetDay > len =>
                  /\ frame.actualResetDateThisMonth = first + len * SecondsPerDay
                  /\ Day(frame.actualResetDateThisMonth) = 1
                  /\ frame.actualResetDateThisMonth % SecondsPerDay = 0
            /\ frame.resetDay <= len =>
                  frame.actualResetDateThisMonth
                      = first + (frame.resetDay - 1) * SecondsPerDay

\* C9 happens: reset day 31 on 2024-04-15, April having 30 days: the reset
\* date of April is 2024-05-01 00:00:00 UTC (1714521600).
C9_Witness ==
    /\ Returned_GetLastResetDate
    /\ frame.resetDay = 31
    /\ frame.currentDate = Midnight(2024, 4, 15)
    /\ frame.actualResetDateThisMonth = 1714521600
    /\ frame.actualResetDateThisMonth = Midnight(2024, 5, 1)

----------------------------------------------------------------------------
(* The instantaneous speed: unit.NetworkSpeed *)

\* Strings are sequences of characters; a set of NIC names (a Go
\* map[string]struct{}) is [nil, set].
Lo == <<"l", "o">>
Docker0 == <<"d", "o", "c", "k", "e", "r", "0">>

loopbackNames ==
    {<<"b", "r">>, <<"c", "n", "i">>, <<"d", "o", "c", "k", "e", "r">>,
     <<"p", "o", "d", "m", "a", "n">>, <<"f", "l", "a", "n", "n", "e", "l">>,
     <<"l", "o">>, <<"v", "e", "t", "h">>, <<"v", "i", "r", "b", "r">>,
     <<"v", "m", "b", "r">>}

HasPrefix(str, prefix) ==
    Len(str) >= Len(prefix) /\ SubSeq(str, 1, Len(prefix)) = prefix

\* strings.Split(str, ",")
RECURSIVE Split(_)
Split(str) ==
    IF \A i \in 1..Len(str) : str[i] # ","
    THEN <<str>>
    ELSE LET i == CHOOSE k \in 1..Len(str) :
                     str[k] = "," /\ \A j \in 1..(k - 1) : str[j] # ","
         IN  <<SubSeq(str, 1, i - 1)>> \o Split(SubSeq(str, i + 1, Len(str)))

WhiteSpace == {" ", "\t", "\n", "\r"}

RECURSIVE TrimLeft(_)
TrimLeft(str) ==
    IF str # <<>> /\ Head(str) \in WhiteSpace THEN TrimLeft(Tail(str)) ELSE str

RECURSIVE TrimRight(_)
TrimRight(str) ==
    IF str # <<>> /\ str[Len(str)] \in WhiteSpace
    THEN TrimRight(SubSeq(str, 1, Len(str) - 1))
    ELSE str

TrimSpace(str) == TrimRight(TrimLeft(str))

parseNics(nics) ==
    IF nics = <<>> THEN [nil |-> TRUE, set |-> {}]
    ELSE [nil |-> FALSE, set |-> {TrimSpace(nic) : nic \in Range(Split(nics))}]

\* shouldInclude that looks at the whitelist before the prefixes.
shouldIncludeWhitelistFirst(nicName, includeNics, excludeNics) ==
    IF Cardinality(includeNics.set) > 0
    THEN nicName \in includeNics.set
    ELSE IF \E loopbackName \in loopbackNames :
                HasPrefix(nicName, loopbackName)
    THEN FALSE
    ELSE IF Cardinality(excludeNics.set) > 0 /\ nicName \in excludeNics.set
    THEN FALSE
    ELSE TRUE

shouldInclude(nicName, includeNics, excludeNics) ==
    IF \E loopbackName \in loopbackNames : HasPrefix(nicName, loopbackName)
    THEN FALSE
    ELSE IF Cardinality(includeNics.set) > 0
    THEN nicName \in includeNics.set
    ELSE IF Cardinality(excludeNics.set) > 0 /\ nicName \in excludeNics.set
    THEN FALSE
    ELSE TRUE

\* A uint64 is written as an integer: a value v below 2^31 as v, and a
\* value 2^64 - v, for v below 2^31, as -v; sums and differences of such
\* values are then the sums and differences modulo 2^64.
RECURSIVE SumIncluded(_, _, _, _)
SumIncluded(ioCounters, includeNics, excludeNics, sent) ==
    IF ioCounters = <<>> THEN 0
    ELSE (IF shouldInclude(Head(ioCounters).Name, includeNics, excludeNics)
          THEN (IF sent THEN Head(ioCounters).BytesSent
                ELSE Head(ioCounters).BytesRecv)
          ELSE 0)
         + SumIncluded(Tail(ioCounters), includeNics, excludeNics, sent)

IOStat(name, sent, recv) ==
    [Name |-> name, BytesSent |-> sent, BytesRecv |-> recv]

\* net.IOCounters(true) in NetworkSpeed: a failure, no interface, or the
\* counters of the interfaces present; counters grow, fall back (a reset)
\* and interfaces come and go.
SpeedIO ==
    {[err |-> TRUE, list |-> <<>>],
     [err |-> FALSE, list |-> <<>>],
     [err |-> FALSE, list |-> <<IOStat(Eth0, 100, 10), IOStat(Lo, 5, 5)>>],
     [err |-> FALSE, list |-> <<IOStat(Eth0, 150, 40), IOStat(Lo, 9, 9)>>],
     [err |-> FALSE, list |-> <<IOStat(Eth0, 50, 10), IOStat(Docker0, 1, 1)>>],
     [err |-> FALSE, list |-> <<IOStat(Eth0, 150, 40), IOStat(Eth1, 20, 20)>>]}

\* The totals of the monthly window, NetworkSpeed's loop over the result
\* of GetTotalTrafficBetween.
RECURSIVE SumWindow(_, _, _, _, _)
SumWindow(nicStatics, names, includeNics, excludeNics, sent) ==
    IF names = {} THEN 0
    ELSE LET name == CHOOSE n \in names : TRUE
         IN  (IF shouldInclude(name, includeNics, excludeNics)
              THEN (IF sent THEN nicStatics[name].Tx ELSE nicStatics[name].Rx)
              ELSE 0)
             + SumWindow(nicStatics, names \ {name}, includeNics,
                         excludeNics, sent)

\* --include-nics and --exclude-nics as given on the command line.
NicFlags ==
    {<<>>, Eth0, Eth0 \o <<",", " ">> \o Eth1, Eth1}

\* The reports of a process's life.
MaxReports == 2

\* NetworkSpeed up to the sleep of getNetworkSpeedFallback: with a month
\* rotation the store is started and the totals of the window are read,
\* then the counters are read a first time.
NetworkSpeedEnter ==
    /\ ~panicked
    /\ frame.fn = "none"
    /\ now < StartTime + MaxReports
    /\ \E io \in SpeedIO, openErr \in OpenOutcomes :
          LET includeNics == parseNics(flags.IncludeNics)
              excludeNics == parseNics(flags.ExcludeNics)
              rotate == flags.MonthRotate # 0
              g1 == IF rotate /\ ~running
                    THEN startLocked(G, now, openErr)[1] ELSE G
              g2 == IF rotate THEN ensureInitLocked(g1) ELSE g1
              nicStatics ==
                  IF rotate
                  THEN GetTotalTrafficBetween(
                           g2, GetLastResetDate(flags.MonthRotate, now), now)
                  ELSE <<>>
              windowUp == SumWindow(nicStatics, DOMAIN nicStatics,
                                    includeNics, excludeNics, TRUE)
              windowDown == SumWindow(nicStatics, DOMAIN nicStatics,
                                      includeNics, excludeNics, FALSE)
          IN  /\ Commit(g2)
              /\ frame' =
                   IF io.err \/ Len(io.list) = 0
                   THEN [fn |-> "NetworkSpeed", pc |-> "done",
                         totalUp |-> windowUp, totalDown |-> windowDown,
                         upSpeed |-> 0, downSpeed |-> 0, err |-> TRUE]
                   ELSE [fn |-> "NetworkSpeed", pc |-> "sleep",
                         rotate |-> rotate,
                         windowUp |-> windowUp, windowDown |-> windowDown,
                         readAt |-> now,
                         totalUp1 |-> SumIncluded(io.list, includeNics,
                                                  excludeNics, TRUE),
                         totalDown1 |-> SumIncluded(io.list, includeNics,
                                                    excludeNics, FALSE)]
    /\ UNCHANGED <<lastErr, now, diskFaulty, flags>>

\* After time.Sleep(time.Second): the second reading and the difference.
NetworkSpeedWake ==
    /\ frame.fn = "NetworkSpeed" /\ frame.pc = "sleep"
    /\ now' = now + 1
    /\ \E io \in SpeedIO :
          LET includeNics == parseNics(flags.IncludeNics)
              excludeNics == parseNics(flags.ExcludeNics)
              totalUp2 == SumIncluded(io.list, includeNics, excludeNics, TRUE)
              totalDown2 == SumIncluded(io.list, includeNics, excludeNics, FALSE)
          IN  frame' =
                IF io.err \/ Len(io.list) = 0
                THEN [fn |-> "NetworkSpeed", pc |-> "done",
                      totalUp |-> frame.windowUp, totalDown |-> frame.windowDown,
                      upSpeed |-> 0, downSpeed |-> 0, err |-> TRUE]
                ELSE [fn |-> "NetworkSpeed", pc |-> "done",
                      totalUp |-> IF frame.rotate THEN frame.windowUp
                                  ELSE totalUp2,
                      totalDown |-> IF frame.rotate THEN frame.windowDown
                                    ELSE totalDown2,
                      upSpeed |-> totalUp2 - frame.totalUp1,
                      downSpeed |-> totalDown2 - frame.totalDown1,
                      err |-> FALSE,
                      readAt1 |-> frame.readAt, readAt2 |-> now',
                      totalUp1 |-> frame.totalUp1, totalUp2 |-> totalUp2,
                      totalDown1 |-> frame.totalDown1,
                      totalDown2 |-> totalDown2]
    /\ UNCHANGED <<running, store, config, staticCache, lastCounters, nicsMem,
                   res, file, bak, tmp, diskFaulty, panicked, lastErr, flags>>

\* The next report calls NetworkSpeed again.
NetworkSpeedReturn ==
    /\ frame.fn = "NetworkSpeed" /\ frame.pc = "done"
    /\ frame' = NoFrame
    /\ UNCHANGED <<running, store, config, staticCache, lastCounters, nicsMem,
                   res, file, bak, tmp, diskFaulty, now, panicked, lastErr, flags>>

InitSpeed ==
    /\ InitStore
    /\ file \in {Absent,
                 Json([Interfaces |->
                          MapOf([n \in Nic |-> <<TD(StartTime - 1, 3, 4)>>]),
                       Config |-> NewCfg(0, 0, 0, NilNics)])}
    /\ diskFaulty = FALSE
    /\ flags \in [MonthRotate : {0, 1}, IncludeNics : NicFlags,
                  ExcludeNics : {<<>>, Eth1}]
    /\ frame = NoFrame

NextSpeed ==
    \/ NetworkSpeedEnter
    \/ NetworkSpeedWake
    \/ NetworkSpeedReturn

SpecSpeed == InitSpeed /\ [][NextSpeed]_vars

\* C6: the speeds NetworkSpeed returns are the differences of two readings
\* of the summed counters of the included NICs taken one second apart,
\* and 0 whenever the second sum is smaller than the first.
C6_SpeedIsDifferenceOrZero ==
    (frame.fn = "NetworkSpeed" /\ frame.pc = "done" /\ ~frame.err) =>
        /\ frame.readAt2 = frame.readAt1 + 1
        /\ frame.upSpeed = IF frame.totalUp2 >= frame.totalUp1
                           THEN frame.totalUp2 - frame.totalUp1 ELSE 0
        /\ frame.downSpeed = IF frame.totalDown2 >= frame.totalDown1
                             THEN frame.totalDown2 - frame.totalDown1 ELSE 0


----------------------------------------------------------------------------
(* Save and load *)

\* The configuration in effect, the whitelist read through to its elements.
EffectiveConfig(g) ==
    [configOrDefault(g.config) EXCEPT !.Nics = Elems(g, g.config.Nics)]

\* Every datum of the store is within the retention period at the time t.
WithinRetention(g, t) ==
    \A td \in Data(g.store.Interfaces) :
        td.Timestamp
            >= t - configOrDefault(g.config).DataPreserveDay * SecondsPerDay

\* The package after a save that succeeds and a load of the file at t.
SaveThenLoad(g, t) ==
    loadFromFileLocked(saveToFileLocked(g, "ok"), t, FALSE)[1]

\* The instants a file written now is read back at.
LoadTimes == {t \in Instants : t >= now}

----------------------------------------------------------------------------
(* SetNewConfig *)

\* What a call SetNewConfig(newCfg) leaves: each numeric field is the
\* argument's, or the one in effect before when the argument's is zero.
MergedNumbers(newCfg) ==
    LET old == configOrDefault(config)
    IN  /\ config'.DataPreserveDay =
              IF newCfg.DataPreserveDay # 0 THEN newCfg.DataPreserveDay
              ELSE old.DataPreserveDay
        /\ config'.DetectInterval =
              IF newCfg.DetectInterval # 0 THEN newCfg.DetectInterval
              ELSE old.DetectInterval
        /\ config'.SaveInterval =
              IF newCfg.SaveInterval # 0 THEN newCfg.SaveInterval
              ELSE old.SaveInterval

\* The whitelist after the call, by the three kinds of newCfg.Nics.
MergedNics(newCfg) ==
    IF newCfg.Nics.nil
    THEN /\ Elems(G', config'.Nics) = Elems(G, config.Nics)
         /\ (config'.Nics = 0) <=> (config.Nics = 0)
    ELSE /\ Elems(G', config'.Nics) = newCfg.Nics.elems
         /\ config'.Nics # 0
         /\ res'.some => config'.Nics # res'.val.Config.Nics
         /\ newCfg.Nics.elems = <<>> => \A n \in Nic : isNicAllowed(G', n)

\* C12: SetNewConfig leaves the whitelist as it is when Nics is nil, makes
\* the store monitor every NIC when Nics is empty and not nil, and replaces
\* the whitelist with a copy of Nics (an array no slice of a caller shares)
\* when it is not empty; a numeric field that is zero leaves its setting as
\* it is.  The configuration saved with the store is the effective one.
C12_SetNewConfigMerges ==
    [][\A newCfg \in NewCfgs :
          SetNewConfig({newCfg}) =>
             /\ MergedNumbers(newCfg)
             /\ MergedNics(newCfg)
             /\ store'.Config = config']_vars

\* C12 happens: after a call that set a retention of one day and the
\* whitelist [eth0], a call with zero numbers and an empty list left the
\* retention at one day and the store samples eth1; the caller still holds
\* the Config it read under the whitelist [eth0].
C12_Witness ==
    /\ running /\ ~panicked
    /\ config.Nics # 0 /\ Whitelist = <<>>
    /\ config.DataPreserveDay = 1
    /\ Eth1 \in Keys(staticCache)
    /\ res.some /\ res.val.Config.Nics # 0
    /\ Elems(G, res.val.Config.Nics) = <<Eth0>>

\* C13: whenever a call of SetNewConfig makes a non-empty whitelist
\* effective, the cache and the baselines (lastCounters) hold on return no
\* entry for a NIC outside the whitelist, whether or not the store is
\* running at the time of the call.
C13_NoEntryOutsideWhitelist ==
    [][\A newCfg \in NewCfgs :
          (SetNewConfig({newCfg}) /\ Len(Elems(G', config'.Nics)) > 0) =>
             (Keys(staticCache') \cup DOMAIN lastCounters')
                 \subseteq Range(Elems(G', config'.Nics))]_vars

----------------------------------------------------------------------------
(* Stop *)

\* What the flush of Stop adds for the NIC n: the cached deltas as one datum
\* of the present time.
RolledUp(n) ==
    LET arr == Get(staticCache, n)
    IN  IF SumTx(arr) > 0 \/ SumRx(arr) > 0
        THEN <<TD(now, SumTx(arr), SumRx(arr))>>
        ELSE <<>>

\* The data of arr that are not expired at the time t.
NotExpired(arr, t) ==
    LET fresh(td) ==
            td.Timestamp >= t - config.DataPreserveDay * SecondsPerDay
    IN  SelectSeq(arr, fresh)

\* C14: when Stop returns success on a running store the cache is empty
\* and the file is the serialization of the in-memory store, which holds,
\* for each NIC, its data of before and the cached deltas rolled up,
\* except the expired data; Stop on a store that is not running changes
\* nothing and returns success.
C14_StopFlushesAndSaves ==
    [][Stop =>
         IF running
         THEN (~lastErr' /\ ~panicked') =>
                 /\ ~running'
                 /\ Keys(staticCache') = {}
                 /\ file' = Json(Marshal(G'))
                 /\ \A n \in Nic :
                       Get(store'.Interfaces, n) =
                           NotExpired(Get(store.Interfaces, n) \o RolledUp(n),
                                      now)
         ELSE /\ ~lastErr'
              /\ UNCHANGED <<running, store, config, staticCache,
                             lastCounters, file, bak, tmp>>]_vars

\* C14 happens: the store is stopped, with baselines from its run; its cache
\* is empty, its file is its serialization, and it holds a datum of the
\* time of the Stop beside an older one.
C14_Witness ==
    /\ ~running /\ ~lastErr /\ ~panicked
    /\ DOMAIN lastCounters # {}
    /\ staticCache = EmptyMap
    /\ file = Json(Marshal(G))
    /\ \E n \in Keys(store.Interfaces) :
          /\ Len(store.Interfaces.kv[n]) = 2
          /\ store.Interfaces.kv[n][2].Timestamp = now
          /\ store.Interfaces.kv[n][1].Timestamp < now

----------------------------------------------------------------------------
(* SpecSave: saveToFileLocked step by step, on a disk that can fail, in a  *)
(* process that can die at any step                                        *)

\* The mutex is held by the caller of the save in progress.
Unlocked == frame = NoFrame

\* static.go:144-152: MkdirAll, store.Config = configOrDefault(config) and
\* json.Marshal; the frame keeps the bytes b and the caller to return to.
saveEnter(caller, g) ==
    LET g1 == [g EXCEPT !.store.Config = configOrDefault(g.config)]
    IN  /\ Commit(g1)
        /\ frame' = [fn |-> "saveToFileLocked", pc |-> "open",
                     caller |-> caller, b |-> Json(Marshal(g1))]

\* The return of saveToFileLocked to its caller, and the rest of the
\* caller: SetNewConfig purges (static.go:523), Stop returns the error
\* (static.go:352-354), the flusher drops it (static.go:272).
saveLeave(g, err) ==
    /\ Commit(IF frame.caller = "SetNewConfig"
              THEN purgeExpiredLocked(g, now) ELSE g)
    /\ lastErr' = IF frame.caller = "Stop" THEN err
                  ELSE IF frame.caller = "SetNewConfig" THEN FALSE
                  ELSE lastErr
    /\ frame' = NoFrame

\* The flusher's tick up to its call of saveToFileLocked
\* (static.go:268-272).
flusherEnter ==
    /\ Unlocked /\ ~panicked /\ running
    /\ Size(store.Interfaces) + Cardinality(Keys(staticCache)) <= MaxStore
    /\ \E t \in TickTimes :
          LET g1 == flushCacheLocked(G, t)
          IN  IF g1.panicked
              THEN Commit(g1) /\ UNCHANGED frame
              ELSE saveEnter("flusher", purgeExpiredLocked(g1, now))
    /\ UNCHANGED <<lastErr, now, diskFaulty, flags>>

\* Stop on a running store up to its call of saveToFileLocked
\* (static.go:336-352).
stopEnter ==
    /\ Unlocked /\ ~panicked /\ running
    /\ Size(store.Interfaces) + Cardinality(Keys(staticCache)) <= MaxStore
    /\ LET g1 == flushCacheLocked([G EXCEPT !.running = FALSE], now)
       IN  IF g1.panicked
           THEN Commit(g1) /\ UNCHANGED frame
           ELSE saveEnter("Stop", purgeExpiredLocked(g1, now))
    /\ UNCHANGED <<lastErr, now, diskFaulty, flags>>

\* SetNewConfig up to its call of saveToFileLocked (static.go:459-521).
setNewConfigEnter(Cfgs) ==
    /\ Unlocked /\ ~panicked
    /\ \E newCfg \in Cfgs :
          LET g1 == mergeConfig(ensureInitLocked(G), newCfg)
          IN  saveEnter("SetNewConfig",
                        IF g1.running THEN dropNotAllowed(g1) ELSE g1)
    /\ UNCHANGED <<lastErr, now, diskFaulty, flags>>

\* What a call on the file system does.
CallOutcomes == IF diskFaulty THEN {"ok", "err"} ELSE {"ok"}

\* os.WriteFile(tmp, b, 0o644), its open: O_CREATE|O_TRUNC leaves an empty
\* {path}.tmp (static.go:154).
saveOpen ==
    /\ frame.fn = "saveToFileLocked" /\ frame.pc = "open"
    /\ \E outcome \in CallOutcomes :
          IF outcome = "ok"
          THEN /\ tmp' = EmptyFile
               /\ frame' = [frame EXCEPT !.pc = "write"]
               /\ UNCHANGED <<running, store, config, staticCache,
                              lastCounters, nicsMem, res, file, bak, panicked,
                              lastErr>>
          ELSE saveLeave(G, TRUE)
    /\ UNCHANGED <<now, diskFaulty, flags>>

\* saveWrite on SaveFilePath itself, without the .tmp.
saveWriteInPlace ==
    /\ frame.fn = "saveToFileLocked" /\ frame.pc = "write"
    /\ \E outcome \in CallOutcomes :
          IF outcome = "ok"
          THEN /\ file' = IF file # Corrupt THEN Corrupt ELSE frame.b
               /\ tmp' = IF file # Corrupt THEN tmp ELSE frame.b
               /\ frame' = [frame EXCEPT
                              !.pc = IF file # Corrupt THEN "write"
                                     ELSE "rename"]
               /\ UNCHANGED <<running, store, config, staticCache,
                              lastCounters, nicsMem, res, bak, panicked,
                              lastErr>>
          ELSE saveLeave(G, TRUE)
    /\ UNCHANGED <<now, diskFaulty, flags>>

\* os.WriteFile, its writes: the bytes reach {path}.tmp a part at a time,
\* and a write that fails leaves the part written so far (static.go:154).
saveWrite ==
    /\ frame.fn = "saveToFileLocked" /\ frame.pc = "write"
    /\ \E outcome \in CallOutcomes :
          IF outcome = "ok"
          THEN /\ tmp' = IF tmp = EmptyFile THEN Corrupt ELSE frame.b
               /\ frame' = [frame EXCEPT
                              !.pc = IF tmp = EmptyFile THEN "write"
                                     ELSE "rename"]
               /\ UNCHANGED <<running, store, config, staticCache,
                              lastCounters, nicsMem, res, file, bak, panicked,
                              lastErr>>
          ELSE saveLeave(G, TRUE)
    /\ UNCHANGED <<now, diskFaulty, flags>>

\* os.Rename(tmp, SaveFilePath): {path} is the old document or the new one
\* (static.go:157).
saveRename ==
    /\ frame.fn = "saveToFileLocked" /\ frame.pc = "rename"
    /\ \E outcome \in CallOutcomes :
          IF outcome = "ok"
          THEN saveLeave([G EXCEPT !.file = tmp, !.tmp = Absent], FALSE)
          ELSE saveLeave(G, TRUE)
    /\ UNCHANGED <<now, diskFaulty, flags>>

\* The process dies, at any step, and is started again: the package's
\* variables are those of InitGlobals, the files are as they were.
Crash ==
    /\ (running \/ frame # NoFrame \/ panicked)
    /\ running' = FALSE
    /\ store' = ZeroStore
    /\ config' = ZeroConfig
    /\ staticCache' = NilMap
    /\ lastCounters' = <<>>
    /\ nicsMem' = [i \in ArrIds |-> <<>>]
    /\ res' = NoRes
    /\ panicked' = FALSE
    /\ lastErr' = FALSE
    /\ frame' = NoFrame
    /\ UNCHANGED <<file, bak, tmp, diskFaulty, now, flags>>

\* StartOrContinue and the sampler's tick take the mutex.
lockedStartOrContinue == Unlocked /\ StartOrContinue
lockedSamplerTick == Unlocked /\ samplerTick(CoarseIO)

\* A document a run of before left in SaveFilePath.
OldDoc ==
    [Interfaces |-> MapOf([n \in {Eth0} |-> <<TD(StartTime, 1, 0)>>]),
     Config |-> NewCfg(DefaultDataPreserveDay, DefaultDetectInterval,
                       DefaultSaveInterval, NilNics)]

InitSave ==
    /\ InitStore
    /\ file \in {Absent, Json(OldDoc)}
    /\ diskFaulty = TRUE
    /\ flags = NoFlags
    /\ frame = NoFrame

NextSave ==
    \/ lockedStartOrContinue
    \/ lockedSamplerTick
    \/ flusherEnter
    \/ stopEnter
    \/ setNewConfigEnter({NewCfg(1, 5, 60, NicsOf(<<Eth0>>))})
    \/ saveOpen
    \/ saveWrite
    \/ saveRename
    \/ Crash
    \/ AdvanceClock

SpecSave == InitSave /\ [][NextSave]_vars

\* C15: SaveFilePath is at every instant absent or one whole document,
\* never a part of one, a crash at any step of a save included; every
\* change of SaveFilePath installs the serialization of the store as it is
\* in memory, which the save wrote to {path}.tmp before.
C15_FileIsAbsentOrWhole ==
    /\ [](file.kind \in {"absent", "json"})
    /\ [][file' # file =>
            /\ file' = Json(Marshal(G))
            /\ file' = tmp
            /\ tmp' = Absent]_vars

\* C15 happens: the process died while a save was writing {path}.tmp, which
\* holds a part of a document; SaveFilePath holds the whole document of an
\* earlier save, with data of this run.
C15_Witness ==
    /\ frame = NoFrame /\ store = ZeroStore /\ lastCounters = <<>>
    /\ tmp = Corrupt
    /\ file.kind = "json"
    /\ file.doc # OldDoc
    /\ Data(file.doc.Interfaces) # {}

----------------------------------------------------------------------------
(* SpecFlush: the flusher on a disk whose writes can fail *)

\* flushPurgeSave that gives the rolled-up data up when the write fails.
flushPurgeSaveOrDrop(g, t, outcome) ==
    LET g1 == flushCacheLocked(g, t)
    IN  IF g1.panicked THEN g1
        ELSE IF outcome = "ok"
        THEN saveToFileLocked(purgeExpiredLocked(g1, now), outcome)
        ELSE [saveToFileLocked(purgeExpiredLocked(g, now), outcome)
                 EXCEPT !.staticCache = g1.staticCache]

\* The body of the flusher goroutine on a tick carrying the time t
\* (static.go:268-273), the save ending as `outcome`.
flushPurgeSave(g, t, outcome) ==
    LET g1 == flushCacheLocked(g, t)
    IN  IF g1.panicked THEN g1
        ELSE saveToFileLocked(purgeExpiredLocked(g1, now), outcome)

\* A tick of the flusher; the frame keeps the tick's time, how the write
\* ended, the interface data it leaves in memory, and those the tick
\* before left when its write failed.
flusherTickOnDisk ==
    /\ ~panicked /\ running
    /\ Size(store.Interfaces) + Cardinality(Keys(staticCache)) <= MaxStore
    /\ \E t \in TickTimes, outcome \in SaveOutcomes :
          LET g2 == flushPurgeSave(G, t, outcome)
              failedBefore ==
                  IF frame.fn = "flusher" THEN frame.outcome # "ok" ELSE FALSE
          IN  /\ Commit(g2)
              /\ frame' = [fn |-> "flusher", t |-> t, outcome |-> outcome,
                           left |-> g2.store.Interfaces,
                           afterFailure |-> failedBefore,
                           unsaved |-> IF failedBefore THEN frame.left
                                       ELSE EmptyMap]
    /\ UNCHANGED <<lastErr, now, diskFaulty, flags>>

InitFlush ==
    /\ InitStore
    /\ file = Absent
    /\ diskFaulty = TRUE
    /\ flags = NoFlags
    /\ frame = NoFrame

NextFlush ==
    \/ StartOrContinue
    \/ samplerTick(CoarseIO)
    \/ flusherTickOnDisk
    \/ SetNewConfig({NewCfg(1, 5, 60, NicsOf(<<Eth0>>))})
    \/ AdvanceClock

SpecFlush == InitFlush /\ [][NextFlush]_vars

\* What a flush at the tick time t adds for the NIC n.
RolledAt(n, t) ==
    LET arr == Get(staticCache, n)
    IN  IF SumTx(arr) > 0 \/ SumRx(arr) > 0
        THEN <<TD(t, SumTx(arr), SumRx(arr))>>
        ELSE <<>>

\* The data of arr that are not expired after the step.
StillFresh(arr) ==
    LET fresh(td) ==
            td.Timestamp >= now' - config'.DataPreserveDay * SecondsPerDay
    IN  SelectSeq(arr, fresh)

\* C16: a flush whose write fails leaves in memory the data it rolled up
\* (the store holds, for each NIC, what it held and the datum of the
\* flush, the expired data apart), leaves SaveFilePath as it was and leaves
\* the store running with its flusher; the next flush whose write succeeds
\* writes a document that holds the data the failed flush left in memory,
\* those expired since apart.
C16_FailedWriteLosesNothing ==
    [][flusherTickOnDisk =>
         /\ frame'.outcome # "ok" =>
               /\ \A n \in Nic :
                     Get(store'.Interfaces, n) =
                         StillFresh(Get(store.Interfaces, n)
                                        \o RolledAt(n, frame'.t))
               /\ Keys(staticCache') = {}
               /\ file' = file
               /\ running' /\ ~panicked'
         /\ (frame'.outcome = "ok" /\ frame'.afterFailure) =>
               /\ file' = Json(Marshal(G'))
               /\ \A n \in Keys(frame'.unsaved) :
                     \A td \in Range(StillFresh(frame'.unsaved.kv[n])) :
                         td \in Range(Get(file'.doc.Interfaces, n))]_vars

\* C16 happens: a flush wrote the file after the flush before it failed to;
\* the document holds the datum the failed flush rolled up and the datum of
\* this flush.
C16_Witness ==
    /\ frame.fn = "flusher" /\ frame.outcome = "ok" /\ frame.afterFailure
    /\ Data(frame.unsaved) # {}
    /\ file.kind = "json"
    /\ \E n \in Keys(frame.unsaved) :
          /\ Len(Get(file.doc.Interfaces, n)) = 2
          /\ file.doc.Interfaces.kv[n][1] \in Range(frame.unsaved.kv[n])
          /\ file.doc.Interfaces.kv[n][2].Timestamp = frame.t

----------------------------------------------------------------------------
(* SpecTicks: the two goroutines between taking a tick and taking the      *)
(* mutex                                                                   *)

\* The goroutines of startGoroutinesLocked: whether a sampler has taken a
\* tick from detectTicker.C and waits at mu.Lock (static.go:254-255), and
\* the time t of the tick a flusher has taken from saveTicker.C and waits
\* with (static.go:268-269), 0 for none.
Waiting(sampler, flusher) ==
    [fn |-> "goroutines", sampler |-> sampler, flusher |-> flusher]

\* case <-detectTicker.C: the ticker of a running store delivers a tick.
samplerReceive ==
    /\ running /\ ~panicked
    /\ ~frame.sampler
    /\ frame' = [frame EXCEPT !.sampler = TRUE]
    /\ UNCHANGED <<running, store, config, staticCache, lastCounters, nicsMem,
                   res, file, bak, tmp, diskFaulty, now, panicked, lastErr,
                   flags>>

\* mu.Lock(); sampleOnceLocked(); mu.Unlock(): the goroutine does not look
\* at running or at stopCh again before it samples.
samplerLocked ==
    /\ frame.sampler /\ ~panicked
    /\ Size(staticCache) < MaxCache
    /\ \E io \in CoarseIO :
          Commit(sampleOnceLocked(G, io, now))
    /\ frame' = [frame EXCEPT !.sampler = FALSE]
    /\ UNCHANGED <<lastErr, now, diskFaulty, flags>>

\* case t := <-saveTicker.C: the tick carries the time it was sent at.
flusherReceive ==
    /\ running /\ ~panicked
    /\ frame.flusher = 0
    /\ frame' = [frame EXCEPT !.flusher = now]
    /\ UNCHANGED <<running, store, config, staticCache, lastCounters, nicsMem,
                   res, file, bak, tmp, diskFaulty, now, panicked, lastErr,
                   flags>>

\* mu.Lock(); flushCacheLocked(uint64(t.Unix())); purgeExpiredLocked();
\* saveToFileLocked(); mu.Unlock().
flusherLocked ==
    /\ frame.flusher # 0 /\ ~panicked
    /\ Size(store.Interfaces) + Cardinality(Keys(staticCache)) <= MaxStore
    /\ \E outcome \in SaveOutcomes :
          Commit(flushPurgeSave(G, frame.flusher, outcome))
    /\ frame' = [frame EXCEPT !.flusher = 0]
    /\ UNCHANGED <<lastErr, now, diskFaulty, flags>>

InitTicks ==
    /\ InitStore
    /\ file \in {Absent, Json(OldDoc)}
    /\ diskFaulty = FALSE
    /\ flags = NoFlags
    /\ frame = Waiting(FALSE, 0)

NextTicks ==
    \/ StartOrContinue
    \/ Stop
    \/ SetNewConfig({NewCfg(1, 5, 60, NicsOf(<<Eth0>>))})
    \/ samplerReceive
    \/ samplerLocked
    \/ flusherReceive
    \/ flusherLocked
    \/ AdvanceClock

SpecTicks == InitTicks /\ [][NextTicks]_vars

NonDecreasing(arr) ==
    \A i \in 1..Len(arr), j \in 1..Len(arr) :
        i < j => arr[i].Timestamp <= arr[j].Timestamp

\* C17: in every reachable state, the clock never going back, the
\* timestamps of each NIC's persisted sequence are non-decreasing, and so
\* are those of the view GetNetStatic returns (the persisted data followed
\* by the cached data), under every interleaving of the sampler's ticks,
\* the flusher's ticks, Stop, StartOrContinue and SetNewConfig.
C17_TimestampsNonDecreasing ==
    ~panicked =>
        \A n \in Nic :
            /\ NonDecreasing(Get(store.Interfaces, n))
            /\ NonDecreasing(Get(GetNetStatic(ensureInitLocked(G)).Interfaces,
                                 n))

----------------------------------------------------------------------------
(* SpecTerminal: StartTerminal, its two pump goroutines, the WebSocket and *)
(* the pty                                                                 *)

\* The calls of WriteMessage the model keeps.
MaxFrames == 3

\* errChan := make(chan error, 3).
ErrChanCap == 3

\* The messages conn.ReadMessage returns: a resize, a resize without
\* columns, an input.
Messages ==
    {[Type |-> "resize", Cols |-> 80, Rows |-> 24],
     [Type |-> "resize", Cols |-> 0, Rows |-> 24],
     [Type |-> "input", Cols |-> 0, Rows |-> 0]}

TextMessage == "text"
BinaryMessage == "binary"

\* The command line's flags with --disable-web-ssh set or not.
TerminalFlags(disable) ==
    [MonthRotate |-> 0, IncludeNics |-> <<>>, ExcludeNics |-> <<>>,
     DisableWebSsh |-> disable]

\* The texts StartTerminal writes, in parts.
DisabledText ==
    <<"\n\n", "Web SSH is disabled",
      ". Enable it by running without the --disable-web-ssh flag.">>
StartErrorText == <<"Error: ", "err", "\r\n">>
ConnectionErrorText == <<"\r\nConnection error: ", "err", "\r\n">>
OutputBytes == <<"buf[:n]">>

Contains(text, part) == \E i \in 1..Len(text) : text[i] = part

\* A call StartTerminal(conn) at its entry.  main, input and output are the
\* places of StartTerminal, handleWebSocketInput and handleTerminalOutput;
\* connOpen, peer, writers and log are conn: whether Close was called on it,
\* whether its other end still answers, the goroutines inside WriteMessage
\* and the calls of WriteMessage that returned; spawned, shell, holder, size
\* and typed are impl.term: the child, and whether a process outside the
\* shell's process group holds the pty's slave; errChan is the number of
\* errors buffered, done whether the channel is closed; tty says that the
\* pty master file pty.Start returned is open.
NewSession ==
    [fn |-> "StartTerminal", main |-> "entry", input |-> "none",
     output |-> "none", connOpen |-> TRUE, peer |-> "up", writers |-> {},
     log |-> <<>>, spawned |-> FALSE, shell |-> "none", holder |-> FALSE,
     size |-> <<0, 0>>, typed |-> FALSE, errChan |-> 0, done |-> FALSE,
     tty |-> FALSE]

\* A step of the session: the traffic store is not touched.
sessionStep(s) ==
    /\ frame' = s
    /\ UNCHANGED <<running, store, config, staticCache, lastCounters, nicsMem,
                   res, file, bak, tmp, diskFaulty, now, panicked, lastErr,
                   flags>>

\* What a call of conn.WriteMessage can return: an error once Close was
\* called, either when the other end is gone.
WriteOutcomes(s) ==
    IF ~s.connOpen THEN {FALSE}
    ELSE IF s.peer = "gone" THEN {TRUE, FALSE}
    ELSE {TRUE}

\* The return of conn.WriteMessage(type, text) called by `by`, ok or not.
wrote(s, by, type, text, ok) ==
    [s EXCEPT !.writers = @ \ {by},
              !.log = IF Len(@) < MaxFrames
                      THEN Append(@, [by |-> by, type |-> type,
                                      text |-> text, ok |-> ok])
                      ELSE @]

\* select { case errChan <- err: default: }
sendErr(s) ==
    [s EXCEPT !.errChan = IF @ < ErrChanCap THEN @ + 1 ELSE @]

\* StartTerminal under --disable-web-ssh that leaves conn open.
disabledKeepOpen ==
    /\ frame.fn = "StartTerminal" /\ frame.main = "entry"
    /\ flags.DisableWebSsh
    /\ \E ok \in WriteOutcomes(frame) :
          sessionStep([wrote(frame, "main", TextMessage, DisabledText, ok)
                          EXCEPT !.main = "returned"])

\* part_003:33-37: under --disable-web-ssh StartTerminal writes the text,
\* closes conn and returns.
disabled ==
    /\ frame.fn = "StartTerminal" /\ frame.main = "entry"
    /\ flags.DisableWebSsh
    /\ \E ok \in WriteOutcomes(frame) :
          sessionStep([wrote(frame, "main", TextMessage, DisabledText, ok)
                          EXCEPT !.connOpen = FALSE, !.main = "returned"])

\* part_003:38-58: newTerminalImpl starts the shell on a pty or fails; on a
\* failure StartTerminal writes the error and returns, conn left open;
\* else it makes errChan and done and starts the two goroutines.
newTerminal ==
    /\ frame.fn = "StartTerminal" /\ frame.main = "entry"
    /\ ~flags.DisableWebSsh
    /\ \E started \in BOOLEAN, ok \in WriteOutcomes(frame) :
          IF started
          THEN sessionStep([frame EXCEPT !.spawned = TRUE,
                                         !.tty = TRUE,
                                         !.shell = "alive",
                                         !.input = "top", !.output = "top",
                                         !.main = "select"])
          ELSE sessionStep([wrote(frame, "main", TextMessage,
                                  StartErrorText, ok)
                               EXCEPT !.main = "returned"])

\* part_003:61-65: case err := <-errChan; the error is never nil, and
\* StartTerminal enters conn.WriteMessage.  The case <-done cannot be taken:
\* done is closed by the deferred function alone.
mainSelect ==
    /\ frame.fn = "StartTerminal" /\ frame.main = "select"
    /\ frame.errChan > 0
    /\ sessionStep([frame EXCEPT !.errChan = @ - 1, !.main = "write",
                                 !.writers = @ \cup {"main"}])

\* part_003:65: conn.WriteMessage returns, StartTerminal returns and its
\* deferred function starts.
mainWrote ==
    /\ frame.fn = "StartTerminal" /\ frame.main = "write"
    /\ \E ok \in WriteOutcomes(frame) :
          sessionStep([wrote(frame, "main", TextMessage,
                             ConnectionErrorText, ok)
                          EXCEPT !.main = "gracefulShutdown"])

\* part_003:73-90: Ctrl-C three times, Ctrl-D and "exit\n" written to the
\* pty; the shell exits on them or not.
gracefulShutdown ==
    /\ frame.fn = "StartTerminal" /\ frame.main = "gracefulShutdown"
    /\ \E exits \in BOOLEAN :
          sessionStep([frame EXCEPT
                         !.shell = IF exits THEN "dead" ELSE @,
                         !.typed = IF frame.shell = "alive" \/ frame.holder
                                   THEN TRUE ELSE @,
                         !.main = "term.Close"])

\* terminal_unix.go:95-120: SIGTERM, and SIGKILL after five seconds, to the
\* shell's process group, and cmd.Wait; t.tty is not closed.
termClose ==
    /\ frame.fn = "StartTerminal" /\ frame.main = "term.Close"
    /\ sessionStep([frame EXCEPT !.shell = "dead", !.main = "conn.Close"])

\* part_003:50: conn.Close().
connClose ==
    /\ frame.fn = "StartTerminal" /\ frame.main = "conn.Close"
    /\ sessionStep([frame EXCEPT !.connOpen = FALSE, !.main = "close(done)"])

\* part_003:51: close(done), and StartTerminal has returned.
closeDone ==
    /\ frame.fn = "StartTerminal" /\ frame.main = "close(done)"
    /\ sessionStep([frame EXCEPT !.done = TRUE, !.main = "returned"])

\* part_003:95-99: select { case <-done: return; default: }.
inputTop ==
    /\ frame.fn = "StartTerminal" /\ frame.input = "top"
    /\ sessionStep([frame EXCEPT
                      !.input = IF frame.done THEN "exited" ELSE "read"])

\* part_003:101-133: conn.ReadMessage returns a message: a resize, an input
\* or bytes, passed to the pty.
inputMessage ==
    /\ frame.fn = "StartTerminal" /\ frame.input = "read"
    /\ frame.connOpen /\ frame.peer = "up"
    /\ \E msg \in Messages :
          sessionStep([frame EXCEPT
                         !.size = IF msg.Type = "resize" /\ msg.Cols > 0
                                     /\ msg.Rows > 0
                                  THEN <<msg.Cols, msg.Rows>> ELSE @,
                         !.typed = IF msg.Type = "input" THEN TRUE ELSE @,
                         !.input = "top"])

\* part_003:101-108: conn.ReadMessage returns an error, which it does once
\* conn is closed or its other end is gone.
inputReadError ==
    /\ frame.fn = "StartTerminal" /\ frame.input = "read"
    /\ (~frame.connOpen \/ frame.peer = "gone")
    /\ sessionStep([sendErr(frame) EXCEPT !.input = "exited"])

\* part_003:141-145: select { case <-done: return; default: }.
outputTop ==
    /\ frame.fn = "StartTerminal" /\ frame.output = "top"
    /\ sessionStep([frame EXCEPT
                      !.output = IF frame.done THEN "exited" ELSE "read"])

\* part_003:147-155: term.Read returns bytes that a process holding the
\* pty's slave wrote, and handleTerminalOutput enters conn.WriteMessage.
outputData ==
    /\ frame.fn = "StartTerminal" /\ frame.output = "read"
    /\ (frame.shell = "alive" \/ frame.holder)
    /\ sessionStep([frame EXCEPT !.output = "write",
                                 !.writers = @ \cup {"output"}])

\* part_003:147-154: term.Read returns an error, which the pty's master
\* does once no process holds its slave.
outputReadError ==
    /\ frame.fn = "StartTerminal" /\ frame.output = "read"
    /\ frame.shell = "dead" /\ ~frame.holder
    /\ sessionStep([sendErr(frame) EXCEPT !.output = "exited"])

\* part_003:155-161: conn.WriteMessage returns.
outputWrote ==
    /\ frame.fn = "StartTerminal" /\ frame.output = "write"
    /\ \E ok \in WriteOutcomes(frame) :
          LET s == wrote(frame, "output", BinaryMessage, OutputBytes, ok)
          IN  sessionStep(IF ok THEN [s EXCEPT !.output = "top"]
                          ELSE [sendErr(s) EXCEPT !.output = "exited"])

\* The other end of conn closes it, or the network fails.
peerGone ==
    /\ frame.fn = "StartTerminal" /\ frame.peer = "up"
    /\ frame.main # "returned"
    /\ sessionStep([frame EXCEPT !.peer = "gone"])

\* The shell exits by itself.
shellExits ==
    /\ frame.fn = "StartTerminal" /\ frame.shell = "alive"
    /\ frame.main = "select"
    /\ sessionStep([frame EXCEPT !.shell = "dead"])

\* A command typed to the shell leaves a process outside the shell's
\* process group (a background job of the interactive shell, a setsid)
\* that holds the pty's slave.
holderStarts ==
    /\ frame.fn = "StartTerminal" /\ frame.shell = "alive"
    /\ frame.typed /\ ~frame.holder
    /\ frame.main = "select"
    /\ sessionStep([frame EXCEPT !.holder = TRUE])

\* That process exits.
holderExits ==
    /\ frame.fn = "StartTerminal" /\ frame.holder
    /\ sessionStep([frame EXCEPT !.holder = FALSE])

InitTerminal ==
    /\ InitStore
    /\ file = Absent
    /\ diskFaulty = FALSE
    /\ flags \in {TerminalFlags(FALSE), TerminalFlags(TRUE)}
    /\ frame = NewSession

NextTerminal ==
    \/ disabled
    \/ newTerminal
    \/ mainSelect
    \/ mainWrote
    \/ gracefulShutdown
    \/ termClose
    \/ connClose
    \/ closeDone
    \/ inputTop
    \/ inputMessage
    \/ inputReadError
    \/ outputTop
    \/ outputData
    \/ outputReadError
    \/ outputWrote
    \/ peerGone
    \/ shellExits
    \/ holderStarts
    \/ holderExits

SpecTerminal == InitTerminal /\ [][NextTerminal]_vars

\* C18: under --disable-web-ssh StartTerminal starts no child and no pump
\* at any time, and once it has returned it has called WriteMessage once,
\* with a text frame that contains "Web SSH is disabled", and has closed
\* the transport.
C18_DisabledWritesOneFrameAndCloses ==
    flags.DisableWebSsh =>
        /\ ~frame.spawned /\ frame.shell = "none"
        /\ frame.input = "none" /\ frame.output = "none"
        /\ frame.main \in {"entry", "returned"}
        /\ frame.main = "returned" =>
              /\ Len(frame.log) = 1
              /\ frame.log[1].type = TextMessage
              /\ Contains(frame.log[1].text, "Web SSH is disabled")
              /\ ~frame.connOpen

\* C18 happens: StartTerminal has returned under --disable-web-ssh, its one
\* frame delivered.
C18_Witness ==
    /\ flags.DisableWebSsh
    /\ frame.main = "returned"
    /\ Len(frame.log) = 1 /\ frame.log[1].ok
    /\ ~frame.connOpen

\* C19: in every reachable state of a session at most one goroutine is
\* inside conn.WriteMessage; StartTerminal is not inside the WriteMessage of
\* its "Connection error" frame while handleTerminalOutput is inside the
\* WriteMessage of a binary frame.
C19_SingleWriter ==
    /\ Cardinality(frame.writers) <= 1
    /\ ~(frame.main = "write" /\ frame.output = "write")

----------------------------------------------------------------------------
(* SpecTerminalLive: the session under the Go scheduler *)

\* A goroutine that can take a step takes it: the steps of the three
\* goroutines that need nothing from outside are fair.  Bytes from the pty,
\* messages from the other end and what the processes on the pty do are
\* not.
SpecTerminalLive ==
    /\ InitTerminal
    /\ [][NextTerminal]_vars
    /\ WF_vars(mainSelect)
    /\ WF_vars(mainWrote)
    /\ WF_vars(gracefulShutdown)
    /\ WF_vars(termClose)
    /\ WF_vars(connClose)
    /\ WF_vars(closeDone)
    /\ WF_vars(inputTop)
    /\ WF_vars(inputReadError)
    /\ WF_vars(outputTop)
    /\ WF_vars(outputReadError)
    /\ WF_vars(outputWrote)

PumpEnded == frame.input = "exited" \/ frame.output = "exited"

BothEndsClosed ==
    /\ frame.shell = "dead"
    /\ ~frame.connOpen
    /\ frame.input = "exited" /\ frame.output = "exited"
    /\ frame.main = "returned"

\* C20: once either pump goroutine of a session has returned, eventually
\* the shell is dead, the transport is closed, both pump goroutines have
\* returned and StartTerminal has returned.
C20_PumpEndClosesBothEnds == PumpEnded ~> BothEndsClosed

----------------------------------------------------------------------------
(* SpecTeardown: the deferred function of StartTerminal step by step *)

\* for i := 0; i < 3; i++ (part_003:75).
CtrlCTimes == 3

\* A session that keeps what its teardown did, in order: the writes to the
\* pty with their outcome, the signals, and how the wait ended; i is the
\* loop variable of gracefulShutdown.
TeardownSession == NewSession @@ [teardown |-> <<>>, i |-> 0]

Did(op, ok) == [op |-> op, ok |-> ok]

\* t.tty.Write: the pty's master takes the bytes unless no process holds
\* its slave (terminal_unix.go:126-128).
ptyTakes(s) == s.shell = "alive" \/ s.holder

\* part_003:75-80: one turn of the loop, term.Write([]byte{3}); on an error
\* gracefulShutdown returns.
shutdownCtrlC ==
    /\ frame.fn = "StartTerminal" /\ frame.main = "gracefulShutdown"
    /\ LET ok == ptyTakes(frame)
       IN  sessionStep([frame EXCEPT
                          !.teardown = Append(@, Did("Ctrl-C", ok)),
                          !.typed = IF ok THEN TRUE ELSE @,
                          !.i = IF ok THEN @ + 1 ELSE @,
                          !.main = IF ~ok THEN "term.Close"
                                   ELSE IF frame.i + 1 < CtrlCTimes
                                   THEN "gracefulShutdown"
                                   ELSE "Ctrl-D"])

\* part_003:82-86: term.Write([]byte{4}), its error dropped.
shutdownCtrlD ==
    /\ frame.fn = "StartTerminal" /\ frame.main = "Ctrl-D"
    /\ sessionStep([frame EXCEPT
                      !.teardown = Append(@, Did("Ctrl-D", ptyTakes(frame))),
                      !.main = "exit"])

\* part_003:88-89: term.Write([]byte("exit\n")), its error dropped.
shutdownExit ==
    /\ frame.fn = "StartTerminal" /\ frame.main = "exit"
    /\ sessionStep([frame EXCEPT
                      !.teardown = Append(@, Did("exit\n", ptyTakes(frame))),
                      !.main = "term.Close"])

\* terminal_unix.go:96-104: SIGTERM to the shell's process group, and the
\* goroutine that waits for the shell.
closeSigterm ==
    /\ frame.fn = "StartTerminal" /\ frame.main = "term.Close"
    /\ sessionStep([frame EXCEPT
                      !.teardown = Append(@, Did("SIGTERM",
                                                 frame.shell = "alive")),
                      !.main = "wait"])

\* closeExited that sends SIGKILL all the same.
closeExitedThenKill ==
    /\ frame.fn = "StartTerminal" /\ frame.main = "wait"
    /\ frame.shell = "dead"
    /\ sessionStep([frame EXCEPT
                      !.teardown = Append(@, Did("exited", TRUE)),
                      !.main = "SIGKILL"])

\* terminal_unix.go:105-115: case err := <-done, the shell has exited
\* within the five seconds, and Close returns.
closeExited ==
    /\ frame.fn = "StartTerminal" /\ frame.main = "wait"
    /\ frame.shell = "dead"
    /\ sessionStep([frame EXCEPT
                      !.teardown = Append(@, Did("exited", TRUE)),
                      !.main = "conn.Close"])

\* terminal_unix.go:116: case <-time.After(5 * time.Second), the shell has
\* not exited.
closeTimeout ==
    /\ frame.fn = "StartTerminal" /\ frame.main = "wait"
    /\ frame.shell = "alive"
    /\ sessionStep([frame EXCEPT
                      !.teardown = Append(@, Did("timeout", TRUE)),
                      !.main = "SIGKILL"])

\* terminal_unix.go:118-119: SIGKILL to the group, and <-done.
closeSigkill ==
    /\ frame.fn = "StartTerminal" /\ frame.main = "SIGKILL"
    /\ sessionStep([frame EXCEPT
                      !.teardown = Append(@, Did("SIGKILL",
                                                 frame.shell = "alive")),
                      !.shell = "dead",
                      !.main = "conn.Close"])

\* The shell exits during the teardown: on the bytes written to it, on
\* SIGTERM, or by itself.
shellQuits ==
    /\ frame.fn = "StartTerminal" /\ frame.shell = "alive"
    /\ frame.main \in {"gracefulShutdown", "Ctrl-D", "exit", "term.Close",
                       "wait"}
    /\ sessionStep([frame EXCEPT !.shell = "dead"])

InitTeardown ==
    /\ InitStore
    /\ file = Absent
    /\ diskFaulty = FALSE
    /\ flags = TerminalFlags(FALSE)
    /\ frame = TeardownSession

NextTeardown ==
    \/ newTerminal
    \/ mainSelect
    \/ mainWrote
    \/ shutdownCtrlC
    \/ shutdownCtrlD
    \/ shutdownExit
    \/ closeSigterm
    \/ closeExited
    \/ closeTimeout
    \/ closeSigkill
    \/ connClose
    \/ closeDone
    \/ inputTop
    \/ inputMessage
    \/ inputReadError
    \/ outputTop
    \/ outputData
    \/ outputReadError
    \/ outputWrote
    \/ peerGone
    \/ shellExits
    \/ shellQuits
    \/ holderStarts
    \/ holderExits

SpecTeardown == InitTeardown /\ [][NextTeardown]_vars

\* The operations of a teardown, in order.
Ops(s) == [k \in 1..Len(s.teardown) |-> s.teardown[k].op]

\* The teardown is over: conn.Close has been called by the deferred
\* function.
TornDown == frame.spawned /\ frame.main \in {"close(done)", "returned"}

\* The transport is closed by the last step of the teardown, not before.
ClosedLast ==
    frame.spawned =>
        (~frame.connOpen <=> frame.main \in {"close(done)", "returned"})

AllWrites == <<"Ctrl-C", "Ctrl-C", "Ctrl-C", "Ctrl-D", "exit\n", "SIGTERM">>

\* How Close ends: the shell exited within the five seconds and no SIGKILL
\* is sent, or it did not and SIGKILL is sent.
WaitEnds == {<<"exited">>, <<"timeout", "SIGKILL">>}

\* C21 as stated: every teardown writes Ctrl-C three times, Ctrl-D and
\* "exit\n" to the pty, then waits up to five seconds, sends SIGKILL only
\* after a wait that timed out, and closes the transport last.
C21_EveryStepInOrder ==
    /\ ClosedLast
    /\ TornDown => \E end \in WaitEnds : Ops(frame) = AllWrites \o end

\* C21 as amended: the steps are in that order and the transport is closed
\* last; Ctrl-C is written until three are written or a write fails, and
\* Ctrl-D and "exit\n" are written exactly when no write of Ctrl-C failed;
\* SIGKILL is sent exactly when the shell had not exited within the five
\* seconds.
C21_StepsInOrderUntilWriteFails ==
    /\ ClosedLast
    /\ TornDown =>
          \E k \in 1..CtrlCTimes, end \in WaitEnds :
              LET failed == ~frame.teardown[k].ok
              IN  /\ \A j \in 1..(k - 1) : frame.teardown[j].ok
                  /\ (k < CtrlCTimes => failed)
                  /\ Ops(frame) =
                        [j \in 1..k |-> "Ctrl-C"]
                        \o (IF failed THEN <<>> ELSE <<"Ctrl-D", "exit\n">>)
                        \o <<"SIGTERM">> \o end

\* C21 happens: a teardown is over in which the shell took every write and
\* SIGTERM and was killed after the five seconds.
C21_Witness ==
    /\ TornDown
    /\ Ops(frame) = AllWrites \o <<"timeout", "SIGKILL">>
    /\ \A k \in 1..Len(frame.teardown) : frame.teardown[k].ok

----------------------------------------------------------------------------
(* SpecFilter: shouldInclude on the NIC names and the lists of the command *)
(* line                                                                    *)

\* The names of the NICs asked about: plain, with an excluded prefix, with
\* a prefix in capitals, and the prefix alone.
FilterNames ==
    {Eth0, Eth1, Lo, Docker0, <<"L", "o", "0">>, <<"b", "r">>,
     <<"e", "n", "o", "1">>}

\* --include-nics and --exclude-nics: no list, a name, names with spaces
\* around them, a name with an excluded prefix, a comma alone.
FilterLists ==
    {<<>>, Eth0, <<" ">> \o Eth0 \o <<" ", ",">> \o Eth1,
     Docker0 \o <<",">> \o Eth1, <<",">>}

\* A call shouldInclude(nicName, parseNics(flags.IncludeNics),
\* parseNics(flags.ExcludeNics)), as made by the loops of NetworkSpeed and
\* InterfaceList.
callShouldInclude ==
    /\ \E nicName \in FilterNames :
          frame' = [fn |-> "shouldInclude", nicName |-> nicName,
                    result |-> shouldInclude(nicName,
                                             parseNics(flags.IncludeNics),
                                             parseNics(flags.ExcludeNics))]
    /\ UNCHANGED <<running, store, config, staticCache, lastCounters, nicsMem,
                   res, file, bak, tmp, diskFaulty, now, panicked, lastErr,
                   flags>>

InitFilter ==
    /\ InitStore
    /\ file = Absent
    /\ diskFaulty = FALSE
    /\ \E inc \in FilterLists, exc \in FilterLists :
          flags = [MonthRotate |-> 0, IncludeNics |-> inc,
                   ExcludeNics |-> exc]
    /\ frame = NoFrame

NextFilter == callShouldInclude

SpecFilter == InitFilter /\ [][NextFilter]_vars

\* The prefixes the claim lists.
ExcludedPrefixes ==
    {<<"l", "o">>, <<"b", "r">>, <<"c", "n", "i">>,
     <<"d", "o", "c", "k", "e", "r">>, <<"p", "o", "d", "m", "a", "n">>,
     <<"f", "l", "a", "n", "n", "e", "l">>, <<"v", "e", "t", "h">>,
     <<"v", "i", "r", "b", "r">>, <<"v", "m", "b", "r">>}

BeginsWith(name, prefix) ==
    /\ Len(prefix) <= Len(name)
    /\ \A k \in 1..Len(prefix) : name[k] = prefix[k]

\* The name is an entry of the comma-separated list, the spaces around the
\* entry apart.
Listed(name, list) ==
    \E k \in 1..Len(Split(list)) : TrimSpace(Split(list)[k]) = name

\* C22: shouldInclude returns true exactly for a name that begins with none
\* of the excluded prefixes and that is in the whitelist when one is
\* configured, and else is not in the blacklist when one is configured.
C22_IncludedIffNoPrefixAndListsAllow ==
    frame.fn = "shouldInclude" =>
        (frame.result <=>
            /\ \A prefix \in ExcludedPrefixes :
                  ~BeginsWith(frame.nicName, prefix)
            /\ IF flags.IncludeNics # <<>>
               THEN Listed(frame.nicName, flags.IncludeNics)
               ELSE IF flags.ExcludeNics # <<>>
               THEN ~Listed(frame.nicName, flags.ExcludeNics)
               ELSE TRUE)

\* C22 happens: docker0 is in the whitelist and is excluded; eth1 is in the
\* whitelist and in the blacklist and is included.
C22_Witness ==
    /\ frame.fn = "shouldInclude"
    /\ \/ /\ frame.nicName = Docker0
          /\ Listed(Docker0, flags.IncludeNics)
          /\ ~frame.result
       \/ /\ frame.nicName = Eth1
          /\ Listed(Eth1, flags.IncludeNics)
          /\ Listed(Eth1, flags.ExcludeNics)
          /\ frame.result

----------------------------------------------------------------------------
(* SpecRun: RootCmd.Run, the start of the agent *)

\* The uploads and connections the model keeps.
MaxAttempts == 3

\* The flags Run reads; Endpoint and Token say where their value is from.
RunFlags(showWarning, monthRotate, key, disableAutoUpdate) ==
    [MonthRotate |-> monthRotate, IncludeNics |-> <<>>, ExcludeNics |-> <<>>,
     ShowWarning |-> showWarning, AutoDiscoveryKey |-> key,
     DisableAutoUpdate |-> disableAutoUpdate,
     Endpoint |-> "command line", Token |-> "command line"]

\* Run at its entry: where it is, the exit code once the process has
\* exited, how the discovery ended, whether update.CheckAndUpdate was
\* called, and the uploads of the basic info and
\* the connections of the WebSocket attempted so far, each with the
\* endpoint and token it used.
RunEntry ==
    [fn |-> "Run", pc |-> "entry", code |-> -1, discovery |-> "none",
     updateChecked |-> FALSE, attempts |-> <<>>]

\* monitoring.InterfaceList on the counters io (net.go:251-266).
InterfaceList(io) ==
    LET includeNics == parseNics(flags.IncludeNics)
        excludeNics == parseNics(flags.ExcludeNics)
        inc(stat) == shouldInclude(stat.Name, includeNics, excludeNics)
        kept == SelectSeq(io.list, inc)
    IN  IF io.err THEN NilNics
        ELSE NicsOf([k \in 1..Len(kept) |-> kept[k].Name])

\* A step of Run that leaves the traffic store alone.
runStep(f) ==
    /\ frame' = f
    /\ UNCHANGED <<running, store, config, staticCache, lastCounters, nicsMem,
                   res, file, bak, tmp, diskFaulty, now, panicked, lastErr>>

\* part_000:24-27: with --show-warning the toast is shown and the process
\* exits with 0.
runShowWarning ==
    /\ frame.fn = "Run" /\ frame.pc = "entry"
    /\ runStep([frame EXCEPT
                  !.pc = IF flags.ShowWarning THEN "exited" ELSE "netstatic",
                  !.code = IF flags.ShowWarning THEN 0 ELSE @])
    /\ UNCHANGED flags

\* part_000:33-48: with a month rotation the store is started and told the
\* NICs of InterfaceList; the errors are logged.
runNetstatic ==
    /\ frame.fn = "Run" /\ frame.pc = "netstatic"
    /\ IF flags.MonthRotate # 0
       THEN \E openErr \in OpenOutcomes, io \in SpeedIO,
               outcome \in SaveOutcomes :
              LET g0 == IF running THEN G
                        ELSE startLocked(G, now, openErr)[1]
                  g1 == mergeConfig(ensureInitLocked(g0),
                                    NewCfg(0, 0, 0, InterfaceList(io)))
                  g2 == IF g1.running THEN dropNotAllowed(g1) ELSE g1
                  g3 == saveToFileLocked(g2, outcome)
              IN  Commit(purgeExpiredLocked(g3, now))
       ELSE UNCHANGED <<running, store, config, staticCache, lastCounters,
                        nicsMem, res, file, bak, tmp, panicked>>
    /\ frame' = [frame EXCEPT !.pc = "discovery"]
    /\ UNCHANGED <<diskFaulty, now, lastErr, flags>>

\* handleAutoDiscovery: the key is exchanged for an endpoint and a token,
\* which replace those of the command line; an HTTP failure or a malformed
\* response is an error.
handleAutoDiscovery(ok) ==
    IF ok
    THEN <<[flags EXCEPT !.Endpoint = "discovered", !.Token = "discovered"],
           FALSE>>
    ELSE <<flags, TRUE>>

\* runDiscovery that logs the failure and goes on.
runDiscoveryGoesOn ==
    /\ frame.fn = "Run" /\ frame.pc = "discovery"
    /\ IF flags.AutoDiscoveryKey # ""
       THEN \E ok \in BOOLEAN :
              LET r == handleAutoDiscovery(ok)
              IN  /\ flags' = r[1]
                  /\ runStep([frame EXCEPT
                         !.discovery = IF r[2] THEN "failed" ELSE "done",
                         !.pc = "update"])
       ELSE /\ runStep([frame EXCEPT !.pc = "update"])
            /\ UNCHANGED flags

\* part_000:62-69: with an auto-discovery key, handleAutoDiscovery; on an
\* error the process exits with 1.
runDiscovery ==
    /\ frame.fn = "Run" /\ frame.pc = "discovery"
    /\ IF flags.AutoDiscoveryKey # ""
       THEN \E ok \in BOOLEAN :
              LET r == handleAutoDiscovery(ok)
              IN  /\ flags' = r[1]
                  /\ runStep([frame EXCEPT
                         !.discovery = IF r[2] THEN "failed" ELSE "done",
                         !.pc = IF r[2] THEN "exited" ELSE "update",
                         !.code = IF r[2] THEN 1 ELSE @])
       ELSE /\ runStep([frame EXCEPT !.pc = "update"])
            /\ UNCHANGED flags

\* part_000:70-93: the lists are logged, the update is checked unless
\* disabled, and the goroutine of the basic info uploads is started.
runUpdate ==
    /\ frame.fn = "Run" /\ frame.pc = "update"
    /\ runStep([frame EXCEPT !.updateChecked = ~flags.DisableAutoUpdate,
                              !.pc = "UpdateBasicInfo"])
    /\ UNCHANGED flags

Attempt(what) ==
    [what |-> what, endpoint |-> flags.Endpoint, token |-> flags.Token]

\* part_000:95: server.UpdateBasicInfo(), an upload of the basic info.
runUpdateBasicInfo ==
    /\ frame.fn = "Run" /\ frame.pc = "UpdateBasicInfo"
    /\ runStep([frame EXCEPT
                  !.attempts = IF Len(@) < MaxAttempts
                               THEN Append(@, Attempt("upload")) ELSE @,
                  !.pc = "EstablishWebSocketConnection"])
    /\ UNCHANGED flags

\* part_000:96: server.EstablishWebSocketConnection(), and the loop.
runEstablish ==
    /\ frame.fn = "Run" /\ frame.pc = "EstablishWebSocketConnection"
    /\ runStep([frame EXCEPT
                  !.attempts = IF Len(@) < MaxAttempts
                               THEN Append(@, Attempt("connect")) ELSE @,
                  !.pc = "UpdateBasicInfo"])
    /\ UNCHANGED flags

InitRun ==
    /\ InitStore
    /\ file \in {Absent, Json(OldDoc)}
    /\ diskFaulty = FALSE
    /\ \E showWarning \in BOOLEAN, monthRotate \in {0, 1},
          key \in {"", "key"}, disableAutoUpdate \in BOOLEAN :
          flags = RunFlags(showWarning, monthRotate, key, disableAutoUpdate)
    /\ frame = RunEntry

NextRun ==
    \/ runShowWarning
    \/ runNetstatic
    \/ runDiscovery
    \/ runUpdate
    \/ runUpdateBasicInfo
    \/ runEstablish

SpecRun == InitRun /\ [][NextRun]_vars

\* C23: with an auto-discovery key, once the discovery has failed the
\* process has exited with a code that is not zero, no upload of the basic
\* info and no WebSocket connection has been attempted, and none is ever
\* attempted with the endpoint and token of the command line.
C23_DiscoveryFailureIsFatal ==
    flags.AutoDiscoveryKey # "" =>
        /\ frame.discovery = "failed" =>
              /\ frame.pc = "exited" /\ frame.code # 0
              /\ frame.attempts = <<>>
        /\ \A k \in 1..Len(frame.attempts) :
              /\ frame.attempts[k].endpoint # "command line"
              /\ frame.attempts[k].token # "command line"

\* C23 happens: the process has exited with 1 on a failed discovery, the
\* traffic store already started.
C23_Witness ==
    /\ flags.AutoDiscoveryKey # ""
    /\ frame.discovery = "failed"
    /\ frame.pc = "exited" /\ frame.code = 1
    /\ running

----------------------------------------------------------------------------
(* SpecInput: handleWebSocketInput on the frames of the operator *)

\* The frames the model lets arrive.
MaxArrived == 2

\* JSON values: a string, a number, null.
JStr(s) == [t |-> "string", s |-> s, n |-> 0]
JNum(n) == [t |-> "number", s |-> "", n |-> n]

\* A payload: its bytes, and what they are as JSON: not JSON, null, a
\* string, or an object with its fields.
NotJson(bytes) == [bytes |-> bytes, kind |-> "invalid", fields |-> <<>>]
JsonNull == [bytes |-> "null", kind |-> "null", fields |-> <<>>]
JsonString(bytes) == [bytes |-> bytes, kind |-> "string", fields |-> <<>>]
JsonObject(bytes, fields) ==
    [bytes |-> bytes, kind |-> "object", fields |-> fields]

Payloads ==
    {NotJson("ls\n"),
     JsonNull,
     JsonString("\"ls\""),
     JsonObject("{\"type\":\"input\",\"input\":\"ls\\n\"}",
                [type |-> JStr("input"), input |-> JStr("ls\n")]),
     JsonObject("{\"type\":\"input\",\"input\":\"\"}",
                [type |-> JStr("input"), input |-> JStr("")]),
     JsonObject("{\"type\":\"input\",\"input\":5}",
                [type |-> JStr("input"), input |-> JNum(5)]),
     JsonObject("{\"type\":\"resize\",\"cols\":80,\"rows\":24}",
                [type |-> JStr("resize"), cols |-> JNum(80),
                 rows |-> JNum(24)]),
     JsonObject("{\"type\":\"resize\",\"cols\":0,\"rows\":24}",
                [type |-> JStr("resize"), cols |-> JNum(0),
                 rows |-> JNum(24)]),
     JsonObject("{\"type\":\"resize\",\"cols\":65616,\"rows\":24}",
                [type |-> JStr("resize"), cols |-> JNum(65616),
                 rows |-> JNum(24)]),
     JsonObject("{\"type\":\"ping\"}", [type |-> JStr("ping")])}

\* What conn.ReadMessage returns: the text frames, and a binary frame.
InFrames ==
    {[t |-> TextMessage, p |-> p] : p \in Payloads}
    \cup {[t |-> BinaryMessage, p |-> NotJson("ls\n")]}

\* json.Unmarshal(p, &cmd) for the struct of part_003:103-108: <<cmd, err>>.
\* null leaves cmd as it is; a value that is no object, and a field whose
\* value is not of the field's type, are errors.
UnmarshalCmd(p) ==
    LET zero == [Type |-> "", Cols |-> 0, Rows |-> 0, Input |-> ""]
        has(k) == k \in DOMAIN p.fields
        bad == \/ has("type") /\ p.fields["type"].t # "string"
               \/ has("input") /\ p.fields["input"].t # "string"
               \/ has("cols") /\ p.fields["cols"].t # "number"
               \/ has("rows") /\ p.fields["rows"].t # "number"
    IN  IF p.kind = "null" THEN <<zero, FALSE>>
        ELSE IF p.kind # "object" THEN <<zero, TRUE>>
        ELSE IF bad THEN <<zero, TRUE>>
        ELSE <<[Type |-> IF has("type") THEN p.fields["type"].s ELSE "",
                Cols |-> IF has("cols") THEN p.fields["cols"].n ELSE 0,
                Rows |-> IF has("rows") THEN p.fields["rows"].n ELSE 0,
                Input |-> IF has("input") THEN p.fields["input"].s ELSE ""],
               FALSE>>

Written(bytes) == [op |-> "Write", bytes |-> bytes, cols |-> 0, rows |-> 0]

\* unixTerminal.Resize: pty.Setsize with uint16(rows) and uint16(cols)
\* (terminal_unix.go:130-132).
Resized(cols, rows) ==
    [op |-> "Resize", bytes |-> "", cols |-> cols % 65536,
     rows |-> rows % 65536]

\* onFrame that resizes whatever the columns and rows.
onFrameNoGuard(m) ==
    LET r == UnmarshalCmd(m.p)
        cmd == r[1]
    IN  IF m.t = TextMessage
        THEN IF ~r[2]
             THEN IF cmd.Type = "resize"
                  THEN <<Resized(cmd.Cols, cmd.Rows)>>
                  ELSE IF cmd.Type = "input" /\ cmd.Input # ""
                  THEN <<Written(cmd.Input)>>
                  ELSE <<>>
             ELSE <<Written(m.p.bytes)>>
        ELSE <<Written(m.p.bytes)>>

\* part_003:109-133: what the body of the loop does to the pty with the
\* message (t, p), in order.
onFrame(m) ==
    LET r == UnmarshalCmd(m.p)
        cmd == r[1]
    IN  IF m.t = TextMessage
        THEN IF ~r[2]
             THEN IF cmd.Type = "resize"
                  THEN IF cmd.Cols > 0 /\ cmd.Rows > 0
                       THEN <<Resized(cmd.Cols, cmd.Rows)>>
                       ELSE <<>>
                  ELSE IF cmd.Type = "input" /\ cmd.Input # ""
                  THEN <<Written(cmd.Input)>>
                  ELSE <<>>
             ELSE <<Written(m.p.bytes)>>
        ELSE <<Written(m.p.bytes)>>

\* handleWebSocketInput in its loop: the frames that arrived, and the calls
\* on the pty so far.
InputLoop ==
    [fn |-> "handleWebSocketInput", pc |-> "read", arrived |-> <<>>,
     pty |-> <<>>, errChan |-> 0]

inputStep(f) ==
    /\ frame' = f
    /\ UNCHANGED <<running, store, config, staticCache, lastCounters, nicsMem,
                   res, file, bak, tmp, diskFaulty, now, panicked, lastErr,
                   flags>>

\* part_003:101-133: conn.ReadMessage returns a message and the body of the
\* loop applies it.
inputFrame ==
    /\ frame.fn = "handleWebSocketInput" /\ frame.pc = "read"
    /\ Len(frame.arrived) < MaxArrived
    /\ \E m \in InFrames :
          inputStep([frame EXCEPT !.arrived = Append(@, m),
                                  !.pty = @ \o onFrame(m)])

\* part_003:101-108: conn.ReadMessage returns an error; it is sent to
\* errChan and the goroutine returns.
inputError ==
    /\ frame.fn = "handleWebSocketInput" /\ frame.pc = "read"
    /\ inputStep([frame EXCEPT !.errChan = 1, !.pc = "exited"])

InitInput ==
    /\ InitStore
    /\ file = Absent
    /\ diskFaulty = FALSE
    /\ flags = TerminalFlags(FALSE)
    /\ frame = InputLoop

NextInput ==
    \/ inputFrame
    \/ inputError

SpecInput == InitInput /\ [][NextInput]_vars

\* The payload is JSON.
IsJson(p) == p.kind # "invalid"

\* The field of a JSON object, if it has it.
Field(p, k) ==
    IF p.kind = "object" /\ k \in DOMAIN p.fields THEN p.fields[k]
    ELSE [t |-> "absent", s |-> "", n |-> 0]

HasType(p, type) == Field(p, "type") = JStr(type)

\* The one effect the claim gives a frame; none where the claim names none.
ClaimedEffect(m) ==
    IF m.t = BinaryMessage THEN <<Written(m.p.bytes)>>
    ELSE IF ~IsJson(m.p) THEN <<Written(m.p.bytes)>>
    ELSE IF HasType(m.p, "input")
    THEN <<[op |-> "Write", bytes |-> Field(m.p, "input").s, cols |-> 0,
            rows |-> 0]>>
    ELSE IF HasType(m.p, "resize")
    THEN <<[op |-> "Resize", bytes |-> "", cols |-> Field(m.p, "cols").n,
            rows |-> Field(m.p, "rows").n]>>
    ELSE <<>>

RECURSIVE Effects(_, _)
Effects(Effect(_), arrived) ==
    IF arrived = <<>> THEN <<>>
    ELSE Effect(Head(arrived)) \o Effects(Effect, Tail(arrived))

\* C24 as stated: every frame has one effect on the pty, the one its kind
\* gives it, and the effects are in the order of arrival.
C24_OneEffectPerFrame ==
    frame.fn = "handleWebSocketInput" =>
        /\ Len(frame.pty) = Len(frame.arrived)
        /\ frame.pty = Effects(ClaimedEffect, frame.arrived)

\* The struct of the loop takes the payload: it is null, or an object whose
\* type and input are strings and whose cols and rows are numbers, where
\* it has them.
Decodes(p) ==
    \/ p.kind = "null"
    \/ /\ p.kind = "object"
       /\ \A k \in DOMAIN p.fields :
             /\ k \in {"type", "input"} => p.fields[k].t = "string"
             /\ k \in {"cols", "rows"} => p.fields[k].t = "number"

\* The effect as amended.
AmendedEffect(m) ==
    IF m.t = BinaryMessage \/ ~Decodes(m.p) THEN <<Written(m.p.bytes)>>
    ELSE IF HasType(m.p, "input") /\ Field(m.p, "input").s # ""
    THEN <<[op |-> "Write", bytes |-> Field(m.p, "input").s, cols |-> 0,
            rows |-> 0]>>
    ELSE IF /\ HasType(m.p, "resize")
            /\ Field(m.p, "cols").n > 0 /\ Field(m.p, "rows").n > 0
    THEN <<[op |-> "Resize", bytes |-> "",
            cols |-> Field(m.p, "cols").n % 65536,
            rows |-> Field(m.p, "rows").n % 65536]>>
    ELSE <<>>

\* C24 as amended: every frame has at most one effect on the pty and the
\* effects are in the order of arrival: a binary frame, and a text frame
\* that the struct does not take, writes its payload unchanged; a text
\* frame of type "input" writes its input when it is not empty; a text
\* frame of type "resize" with positive cols and rows sets the window size
\* to their low 16 bits; any other text frame has no effect.
C24_AtMostOneEffectPerFrame ==
    frame.fn = "handleWebSocketInput" =>
        /\ Len(frame.pty) <= Len(frame.arrived)
        /\ frame.pty = Effects(AmendedEffect, frame.arrived)

\* C24 happens: an input arrived after a resize, and the pty was resized
\* and then written to.
C24_Witness ==
    /\ frame.fn = "handleWebSocketInput"
    /\ Len(frame.arrived) = 2
    /\ frame.pty = <<Resized(80, 24), Written("ls\n")>>
    /\ frame.arrived[2].t = TextMessage
    /\ frame.arrived[2].p.kind = "object"

----------------------------------------------------------------------------
(* SpecArgs: Execute on the arguments of the command line *)

\* The arguments after the program's name.
MaxArgs == 3

ArgWords ==
    {"-autoUpdate", "--autoUpdate", "-memory-mode-available",
     "--memory-mode-available", "--token"}

\* os.Args at the start of the process.
ArgLists ==
    UNION {[1..n -> ArgWords \cup {"komari-agent"}] : n \in 1..(MaxArgs + 1)}

\* Execute at its entry.  The range loop reads the slice it was given, of
\* length n, through the backing array arr, which os.Args shares; len is
\* len(os.Args) and i the (0-based) index of the turn to come.
ExecuteEntry(args) ==
    [fn |-> "Execute", pc |-> "loop", in |-> args, arr |-> args,
     n |-> Len(args), len |-> Len(args), i |-> 0]

\* os.Args = append(os.Args[:i], os.Args[i+1:]...) on the frame f: the
\* slice expression os.Args[i+1:] panics when i+1 > len(os.Args); else the
\* elements after i move down by one in the backing array, whose last one
\* stays as it is.
removeArg(f) ==
    IF f.i + 1 > f.len THEN [f EXCEPT !.pc = "panic"]
    ELSE [f EXCEPT
            !.arr = [k \in 1..f.n |->
                        IF k >= f.i + 1 /\ k < f.len THEN f.arr[k + 1]
                        ELSE f.arr[k]],
            !.len = f.len - 1]

argsStep(f) ==
    /\ frame' = f
    /\ UNCHANGED <<running, store, config, staticCache, lastCounters, nicsMem,
                   res, file, bak, tmp, diskFaulty, now, panicked, lastErr,
                   flags>>

\* part_000:102-114: a turn of the loop on arg = arr[i].
executeTurn ==
    /\ frame.fn = "Execute" /\ frame.pc = "loop"
    /\ LET arg == frame.arr[frame.i + 1]
           next(f) == IF f.pc = "panic" THEN f
                      ELSE [f EXCEPT !.i = @ + 1,
                                     !.pc = IF frame.i + 1 < frame.n
                                            THEN "loop" ELSE "RootCmd"]
       IN  IF arg = "-autoUpdate" \/ arg = "--autoUpdate"
           THEN LET f == removeArg(frame)
                IN  argsStep(IF f.pc = "panic" THEN f
                             ELSE [f EXCEPT !.pc = "RootCmd"])
           ELSE IF arg = "-memory-mode-available"
                   \/ arg = "--memory-mode-available"
           THEN argsStep(next(removeArg(frame)))
           ELSE argsStep(next(frame))

\* part_000:116: RootCmd.Execute() parses os.Args.
executeRootCmd ==
    /\ frame.fn = "Execute" /\ frame.pc = "RootCmd"
    /\ argsStep([frame EXCEPT !.pc = "parsing"])

InitArgs ==
    /\ InitStore
    /\ file = Absent
    /\ diskFaulty = FALSE
    /\ flags = NoFlags
    /\ \E args \in ArgLists :
          /\ args[1] = "komari-agent"
          /\ \A k \in 2..Len(args) : args[k] \in ArgWords
          /\ frame = ExecuteEntry(args)

NextArgs ==
    \/ executeTurn
    \/ executeRootCmd

SpecArgs == InitArgs /\ [][NextArgs]_vars

\* The legacy flags; the spelling -memory-mode-available, which Execute
\* strips too, is counted with them.
LegacyFlags ==
    {"-autoUpdate", "--autoUpdate", "--memory-mode-available",
     "-memory-mode-available"}

NotLegacy(arg) == arg \notin LegacyFlags

\* C25: Execute does not panic, and the arguments the flag parser gets are
\* those of the command line without the occurrences of the legacy flags
\* (-autoUpdate, --autoUpdate, --memory-mode-available), in their order.
C25_LegacyFlagsStripped ==
    frame.fn = "Execute" =>
        /\ frame.pc # "panic"
        /\ frame.pc = "parsing" =>
              SubSeq(frame.arr, 1, frame.len) = SelectSeq(frame.in, NotLegacy)

----------------------------------------------------------------------------
(* SpecDisk: unit.Disk on the partitions and the mountpoints of the        *)
(* command line                                                            *)

Slash == <<"/">>
DataMnt == <<"/", "d", "a", "t", "a">>
Mnt == <<"/", "m", "n", "t">>
Tmp == <<"/", "T", "m", "p">>
Snap == <<"/", "s", "n", "a", "p">>

\* strings.Split(str, sep) for a separator of one character.
RECURSIVE SplitBy(_, _)
SplitBy(str, sep) ==
    IF \A i \in 1..Len(str) : str[i] # sep
    THEN <<str>>
    ELSE LET i == CHOOSE k \in 1..Len(str) :
                     str[k] = sep /\ \A j \in 1..(k - 1) : str[j] # sep
         IN  <<SubSeq(str, 1, i - 1)>>
             \o SplitBy(SubSeq(str, i + 1, Len(str)), sep)

\* strings.ToLower, on the capitals the model uses.
ToLower(str) ==
    LET lower == [c \in {"F", "N", "S", "T"} |->
                     CASE c = "F" -> "f" [] c = "N" -> "n"
                       [] c = "S" -> "s" [] c = "T" -> "t"]
    IN  [k \in 1..Len(str) |->
            IF str[k] \in DOMAIN lower THEN lower[str[k]] ELSE str[k]]

\* strings.Contains.
ContainsStr(str, sub) ==
    \E k \in 0..(Len(str) - Len(sub)) : SubSeq(str, k + 1, k + Len(sub)) = sub

\* strings.Join(opts, ",").
RECURSIVE Join(_)
Join(opts) ==
    IF opts = <<>> THEN <<>>
    ELSE IF Len(opts) = 1 THEN opts[1]
    ELSE opts[1] \o <<",">> \o Join(Tail(opts))

PartitionStat(device, mountpoint, fstype, opts) ==
    [Device |-> device, Mountpoint |-> mountpoint, Fstype |-> fstype,
     Opts |-> opts]

Rw == <<"r", "w">>
Ext4 == <<"e", "x", "t", "4">>
Sda1 == <<"/", "d", "e", "v", "/", "s", "d", "a", "1">>
Loop0 == <<"/", "d", "e", "v", "/", "l", "o", "o", "p", "0">>

\* The partitions of the model: a root on a loop device, a disk, a tmpfs,
\* an NFS mount, a snap on a loop device, a disk mounted with a network
\* option.
RootPart == PartitionStat(Loop0, Slash, <<"o", "v", "e", "r", "l", "a", "y">>,
                          <<Rw>>)
DataPart == PartitionStat(Sda1, DataMnt, Ext4, <<Rw>>)
TmpPart == PartitionStat(<<"t", "m", "p", "f", "s">>, Tmp,
                         <<"t", "m", "p", "f", "s">>, <<Rw>>)
NfsPart == PartitionStat(<<"h", ":", "/">>, Mnt, <<"N", "F", "S", "4">>,
                         <<Rw>>)
SnapPart == PartitionStat(Loop0, Snap, Ext4, <<Rw>>)
NetPart == PartitionStat(Sda1, Mnt, Ext4,
                         <<Rw, <<"_", "n", "e", "t", "w", "o", "r", "k">>>>)

\* disk.go:56-92.
isPhysicalDisk(part) ==
    LET mountpoint == ToLower(part.Mountpoint)
        fstype == ToLower(part.Fstype)
        optsStr == ToLower(Join(part.Opts))
    IN  IF part.Mountpoint = Slash THEN TRUE
        ELSE IF mountpoint \in
                  {<<"/", "t", "m", "p">>,
                   <<"/", "v", "a", "r", "/", "t", "m", "p">>,
                   <<"/", "d", "e", "v", "/", "s", "h", "m">>,
                   <<"/", "r", "u", "n">>,
                   <<"/", "r", "u", "n", "/", "l", "o", "c", "k">>}
        THEN FALSE
        ELSE IF \/ HasPrefix(fstype, <<"n", "f", "s">>)
                \/ HasPrefix(fstype, <<"c", "i", "f", "s">>)
                \/ HasPrefix(fstype, <<"s", "m", "b">>)
                \/ fstype = <<"v", "b", "o", "x", "s", "f">>
                \/ fstype = <<"9", "p">>
                \/ ContainsStr(fstype, <<"f", "u", "s", "e">>)
        THEN FALSE
        ELSE IF \/ ContainsStr(optsStr, <<"r", "e", "m", "o", "t", "e">>)
                \/ ContainsStr(optsStr,
                               <<"n", "e", "t", "w", "o", "r", "k">>)
        THEN FALSE
        ELSE IF fstype = <<"o", "v", "e", "r", "l", "a", "y">> THEN FALSE
        ELSE IF \/ HasPrefix(part.Device,
                             <<"/", "d", "e", "v", "/", "l", "o", "o", "p">>)
                \/ fstype = <<"d", "e", "v", "t", "m", "p", "f", "s">>
                \/ fstype = <<"t", "m", "p", "f", "s">>
        THEN FALSE
        ELSE TRUE

DiskInfo(total, used) == [Total |-> total, Used |-> used]

\* The loop of disk.go:25-36 or 39-49: the usage of each mountpoint that
\* disk.Usage answers for is added.
RECURSIVE sumUsage(_, _)
sumUsage(mountpoints, usage) ==
    IF mountpoints = <<>> THEN DiskInfo(0, 0)
    ELSE LET rest == sumUsage(Tail(mountpoints), usage)
             u == usage[Head(mountpoints)]
         IN  IF u.err THEN rest
             ELSE DiskInfo(u.Total + rest.Total, u.Used + rest.Used)

\* The trimmed entries of --include-mountpoint that are not empty.
includeMounts(str) ==
    LET trimmed == [k \in 1..Len(SplitBy(str, ";")) |->
                       TrimSpace(SplitBy(str, ";")[k])]
        notEmpty(m) == m # <<>>
    IN  SelectSeq(trimmed, notEmpty)

\* disk.go:15-53: Disk() on the answer of disk.Partitions and the answers
\* of disk.Usage.
Disk(includeMountpoints, partitions, usage) ==
    IF partitions.err THEN DiskInfo(0, 0)
    ELSE IF includeMountpoints # <<>>
    THEN sumUsage(includeMounts(includeMountpoints), usage)
    ELSE LET physical == SelectSeq(partitions.list, isPhysicalDisk)
         IN  sumUsage([k \in 1..Len(physical) |-> physical[k].Mountpoint],
                      usage)

\* --include-mountpoint: no list, a mountpoint, mountpoints with spaces and
\* an empty entry, a separator alone, a mountpoint twice, another
\* mountpoint.
MountLists ==
    {<<>>, DataMnt, <<" ">> \o DataMnt \o <<" ", ";", ";">> \o Mnt, <<";">>,
     DataMnt \o <<";">> \o DataMnt, Mnt}

\* What disk.Partitions(false) answers.
PartitionAnswers ==
    {[err |-> TRUE, list |-> <<>>],
     [err |-> FALSE, list |-> <<>>],
     [err |-> FALSE, list |-> <<RootPart, DataPart, TmpPart>>],
     [err |-> FALSE, list |-> <<DataPart, NfsPart, SnapPart>>],
     [err |-> FALSE, list |-> <<NetPart, DataPart>>]}

Mounts == {Slash, DataMnt, Mnt, Tmp, Snap}

Usage(total, used) == [err |-> FALSE, Total |-> total, Used |-> used]
NoUsage == [err |-> TRUE, Total |-> 0, Used |-> 0]

\* What disk.Usage answers for each mountpoint.
UsageAnswers ==
    {[m \in Mounts |-> Usage(100, 40)],
     [m \in Mounts |-> IF m = DataMnt THEN NoUsage ELSE Usage(100, 40)],
     [m \in Mounts |-> IF m = Mnt THEN Usage(1000, 1) ELSE Usage(100, 40)],
     [m \in Mounts |-> IF m = Slash THEN Usage(50, 5) ELSE NoUsage]}

\* A call of Disk(): the frame keeps the answers of the system and the
\* result.
callDisk ==
    /\ \E partitions \in PartitionAnswers, usage \in UsageAnswers :
          frame' = [fn |-> "Disk", partitions |-> partitions,
                    usage |-> usage,
                    result |-> Disk(flags.IncludeMountpoints, partitions,
                                    usage)]
    /\ UNCHANGED <<running, store, config, staticCache, lastCounters, nicsMem,
                   res, file, bak, tmp, diskFaulty, now, panicked, lastErr,
                   flags>>

InitDisk ==
    /\ InitStore
    /\ file = Absent
    /\ diskFaulty = FALSE
    /\ \E list \in MountLists :
          flags = [MonthRotate |-> 0, IncludeNics |-> <<>>,
                   ExcludeNics |-> <<>>, IncludeMountpoints |-> list]
    /\ frame = NoFrame

NextDisk == callDisk

SpecDisk == InitDisk /\ [][NextDisk]_vars

\* The sum of total and of used over the mountpoints of the sequence for
\* which the usage query succeeds.
RECURSIVE SumOver(_, _)
SumOver(mountpoints, usage) ==
    IF mountpoints = <<>> THEN [Total |-> 0, Used |-> 0]
    ELSE LET rest == SumOver(Tail(mountpoints), usage)
             m == Head(mountpoints)
         IN  [Total |-> rest.Total + (IF usage[m].err THEN 0
                                      ELSE usage[m].Total),
              Used |-> rest.Used + (IF usage[m].err THEN 0
                                    ELSE usage[m].Used)]

\* The mountpoints of the partitions that are / or pass the test.
RECURSIVE Included(_)
Included(list) ==
    IF list = <<>> THEN <<>>
    ELSE (IF Head(list).Mountpoint = Slash \/ isPhysicalDisk(Head(list))
          THEN <<Head(list).Mountpoint>> ELSE <<>>)
         \o Included(Tail(list))

\* C26: with an include-list the totals Disk returns are the sums over the
\* listed mountpoints whose usage query succeeds, whatever
\* disk.Partitions answers; without one they are the sums over the
\* partitions whose mountpoint is / or that pass isPhysicalDisk.
C26_TotalsOverListedMountpoints ==
    frame.fn = "Disk" =>
        IF flags.IncludeMountpoints # <<>>
        THEN frame.result =
                 SumOver(includeMounts(flags.IncludeMountpoints), frame.usage)
        ELSE ~frame.partitions.err =>
                 frame.result =
                     SumOver(Included(frame.partitions.list), frame.usage)

----------------------------------------------------------------------------
(* C27: a flush rolls the cache up into the store *)

\* The store of g after a flush at ts, as the claim describes it: each NIC
\* of the cache has one more datum (ts, sum of tx, sum of rx), the other
\* NICs are as they were.
FlushedStore(g, ts) ==
    [n \in Keys(g.store.Interfaces) \cup Keys(g.staticCache) |->
        IF n \in Keys(g.staticCache)
        THEN Append(Get(g.store.Interfaces, n),
                    TD(ts, SumTx(g.staticCache.kv[n]),
                       SumRx(g.staticCache.kv[n])))
        ELSE g.store.Interfaces.kv[n]]

----------------------------------------------------------------------------
(* SpecBaseline: the sampler on a store that is cleared and whose          *)
(* whitelist changes                                                       *)

\* Configurations that take Eth0 out of the whitelist and back into it.
BaselineCfgs ==
    {NewCfg(0, 0, 0, NicsOf(<<Eth1>>)), NewCfg(0, 0, 0, NicsOf(<<>>))}

NextBaseline ==
    \/ StartOrContinue
    \/ sampleOnFineIO
    \/ Clear
    \/ SetNewConfig(BaselineCfgs)

SpecBaseline == InitSample /\ [][NextBaseline]_vars

\* C28: a sampling tick at which a NIC has no baseline appends no datum for
\* it to the cache and leaves the persistent store as it is; when the
\* counters were read and the NIC is monitored the tick records the reading
\* as the NIC's baseline.
C28_FirstObservationOnlyBaseline ==
    [][sampleOnFineIO =>
         \A n \in Nic :
            n \notin DOMAIN lastCounters =>
                /\ Get(staticCache', n) = Get(staticCache, n)
                /\ store' = store
                /\ (~frame'.io.err /\ isNicAllowed(G, n)) =>
                       /\ n \in DOMAIN lastCounters'
                       /\ lastCounters'[n] = frame'.io.counters[n]]_vars

\* C28 happens: a tick found Eth1 with a baseline and Eth0, monitored,
\* without one; Eth0's counters were not zero, they are now its baseline
\* and the cache has no datum of Eth0.
C28_Witness ==
    /\ frame.fn = "sampleOnceLocked"
    /\ ~frame.io.err
    /\ Eth1 \in DOMAIN frame.prev
    /\ Eth0 \notin DOMAIN frame.prev
    /\ frame.io.counters[Eth0].Tx > 0
    /\ Eth0 \in DOMAIN lastCounters
    /\ lastCounters[Eth0] = frame.io.counters[Eth0]
    /\ Get(staticCache, Eth0) = <<>>

----------------------------------------------------------------------------
(* C30: the goroutines after Stop *)

\* C30: while the store is not running, a step of the sampler or of the
\* flusher goroutine appends no datum to the cache, does not modify the
\* persistent store and does not rewrite the file, also when the goroutine
\* had taken its tick before Stop and waited for the mutex.
C30_NoBackgroundChangeAfterStop ==
    [][(~running /\ (samplerLocked \/ flusherLocked)) =>
          UNCHANGED <<staticCache, store, file>>]_vars

----------------------------------------------------------------------------
(* SpecTasks: the goroutines of the traffic store and the calls that start *)
(* and end them                                                            *)

\* The pairs of goroutines a behaviour starts.
MaxPairs == 2

Gens == 1..MaxPairs
Kinds == {"sampler", "flusher"}

\* The goroutines that call StartOrContinue.
Callers == {1, 2}

NoTask == [pc |-> "none", gen |-> 0]

\* cur: the generation of the globals detectTicker, saveTicker and stopCh
\* (0: nil), which StartOrContinue and SetNewConfig replace together;
\* ended[g]: the tickers of generation g are stopped and its stopCh is
\* closed; tick[g][k]: the channel C of the ticker of generation g (k =
\* sampler: detectTicker, flusher: saveTicker) holds a tick; tasks[g][k]:
\* the goroutine k started with generation g, where it is (select, lock,
\* done) and the generation whose channels its select waits on;
\* callers[c]: where the call of StartOrContinue by c is; closePanic: a
\* close(stopCh) has panicked.
NoTasks ==
    [fn |-> "tasks", cur |-> 0,
     ended |-> [g \in Gens |-> FALSE],
     tick |-> [g \in Gens |-> [k \in Kinds |-> FALSE]],
     tasks |-> [g \in Gens |-> [k \in Kinds |-> NoTask]],
     callers |-> [c \in Callers |-> "idle"],
     closePanic |-> FALSE]

\* startGoroutinesLocked (static.go:249-279) after the globals were set to
\* a new generation: both goroutines reach their select.
startGoroutinesLocked(f) ==
    [f EXCEPT !.cur = f.cur + 1,
              !.tasks[f.cur + 1] =
                  [k \in Kinds |-> [pc |-> "select", gen |-> f.cur + 1]]]

\* detectTicker.Stop(); saveTicker.Stop(); close(stopCh). close panics on
\* a nil channel and on a channel that is closed.
endGeneration(f) ==
    IF f.cur = 0 \/ f.ended[f.cur] THEN [f EXCEPT !.closePanic = TRUE]
    ELSE [f EXCEPT !.ended[f.cur] = TRUE]

\* A ticker that is not stopped sends a tick; its channel holds one tick.
tickerFires ==
    /\ \E g \in Gens, k \in Kinds :
          /\ g <= frame.cur /\ ~frame.ended[g] /\ ~frame.tick[g][k]
          /\ frame' = [frame EXCEPT !.tick[g][k] = TRUE]
    /\ UNCHANGED <<running, store, config, staticCache, lastCounters, nicsMem,
                   res, file, bak, tmp, diskFaulty, now, panicked, lastErr,
                   flags>>

\* case <-detectTicker.C / case t := <-saveTicker.C (static.go:254, 268):
\* the goroutine goes to mu.Lock().
taskReceive ==
    /\ \E g \in Gens, k \in Kinds :
          LET t == frame.tasks[g][k]
          IN  /\ t.pc = "select" /\ frame.tick[t.gen][k]
              /\ frame' = [frame EXCEPT !.tick[t.gen][k] = FALSE,
                                        !.tasks[g][k].pc = "lock"]
    /\ UNCHANGED <<running, store, config, staticCache, lastCounters, nicsMem,
                   res, file, bak, tmp, diskFaulty, now, panicked, lastErr,
                   flags>>

\* case <-stopCh: return (static.go:258-259, 274-275).
taskReturns ==
    /\ \E g \in Gens, k \in Kinds :
          LET t == frame.tasks[g][k]
          IN  /\ t.pc = "select" /\ frame.ended[t.gen]
              /\ frame' = [frame EXCEPT !.tasks[g][k].pc = "done"]
    /\ UNCHANGED <<running, store, config, staticCache, lastCounters, nicsMem,
                   res, file, bak, tmp, diskFaulty, now, panicked, lastErr,
                   flags>>

\* What gnet.IOCounters reads while no byte is sent or received.
QuietIO == {[err |-> TRUE, counters |-> <<>>], Counters(0, 0, 0, 0)}

\* mu.Lock(); the work; mu.Unlock() (static.go:255-257, 269-273); then the
\* next turn of the loop, whose select reads the globals detectTicker,
\* saveTicker and stopCh as they are now.
taskLocked ==
    /\ ~panicked
    /\ \E g \in Gens, k \in Kinds :
          /\ frame.tasks[g][k].pc = "lock"
          /\ IF k = "sampler"
             THEN \E io \in QuietIO : Commit(sampleOnceLocked(G, io, now))
             ELSE Commit(flushPurgeSave(G, now, "ok"))
          /\ frame' = [frame EXCEPT !.tasks[g][k] =
                          [pc |-> "select", gen |-> frame.cur]]
    /\ UNCHANGED <<diskFaulty, now, lastErr, flags>>

\* StartOrContinue up to mu.Lock() (static.go:301-304): running is read
\* without the mutex.
startCheck ==
    /\ \E c \in Callers :
          /\ frame.callers[c] = "idle"
          /\ frame' = IF running THEN frame
                      ELSE [frame EXCEPT !.callers[c] = "lock"]
    /\ UNCHANGED <<running, store, config, staticCache, lastCounters, nicsMem,
                   res, file, bak, tmp, diskFaulty, now, panicked, lastErr,
                   flags>>

\* StartOrContinue from mu.Lock() on (static.go:304-319).
startBody ==
    /\ ~panicked
    /\ frame.cur < MaxPairs
    /\ \E c \in Callers, openErr \in OpenOutcomes :
          LET l == startLocked(G, now, openErr)
              f == [frame EXCEPT !.callers[c] = "idle"]
          IN  /\ frame.callers[c] = "lock"
              /\ Commit(l[1])
              /\ lastErr' = l[2]
              /\ frame' = IF l[2] THEN f ELSE startGoroutinesLocked(f)
    /\ UNCHANGED <<diskFaulty, now, flags>>

\* Stop that leaves running set.
stopTasksKeepsRunning ==
    /\ ~panicked
    /\ IF ~running
       THEN /\ lastErr' = FALSE
            /\ UNCHANGED <<running, store, config, staticCache, lastCounters,
                           nicsMem, res, file, bak, tmp, panicked, frame>>
       ELSE LET g2 == flushPurgeSave(G, now, "ok")
            IN  /\ Commit(g2)
                /\ lastErr' = FALSE
                /\ frame' = endGeneration(frame)
    /\ UNCHANGED <<diskFaulty, now, flags>>

\* Stop (static.go:335-355).
stopTasks ==
    /\ ~panicked
    /\ IF ~running
       THEN /\ lastErr' = FALSE
            /\ UNCHANGED <<running, store, config, staticCache, lastCounters,
                           nicsMem, res, file, bak, tmp, panicked, frame>>
       ELSE LET g2 == flushPurgeSave([G EXCEPT !.running = FALSE], now, "ok")
            IN  /\ Commit(g2)
                /\ lastErr' = FALSE
                /\ frame' = endGeneration(frame)
    /\ UNCHANGED <<diskFaulty, now, flags>>

\* SetNewConfig (static.go:456-525) with a configuration of intervals and
\* a whitelist.
setNewConfigTasks ==
    /\ ~panicked
    /\ running => frame.cur < MaxPairs
    /\ LET newCfg == NewCfg(1, 5, 60, NicsOf(<<Eth0>>))
           g1 == mergeConfig(ensureInitLocked(G), newCfg)
           g2 == IF g1.running THEN dropNotAllowed(g1) ELSE g1
           g3 == saveToFileLocked(g2, "ok")
       IN  /\ Commit(purgeExpiredLocked(g3, now))
           /\ frame' = IF running
                       THEN startGoroutinesLocked(endGeneration(frame))
                       ELSE frame
    /\ lastErr' = FALSE
    /\ UNCHANGED <<diskFaulty, now, flags>>

InitTasks ==
    /\ InitStore
    /\ file = Absent
    /\ diskFaulty = FALSE
    /\ flags = NoFlags
    /\ frame = NoTasks

NextTasks ==
    \/ startCheck
    \/ startBody
    \/ stopTasks
    \/ setNewConfigTasks
    \/ tickerFires
    \/ taskReceive
    \/ taskReturns
    \/ taskLocked

SpecTasks == InitTasks /\ [][NextTasks]_vars

\* The goroutines of kind k that wait in a select whose stopCh is open:
\* only a later Stop or SetNewConfig ends them.
Serving(k) ==
    {g \in Gens : /\ frame.tasks[g][k].pc = "select"
                  /\ ~frame.ended[frame.tasks[g][k].gen]}

\* C29: in every reachable state at most one sampler and at most one
\* flusher of the traffic store are alive, under every interleaving of
\* StartOrContinue (also of concurrent calls), SetNewConfig and Stop, also
\* when a goroutine waits for the mutex during the call.
C29_AtMostOnePairAlive ==
    frame.fn = "tasks" =>
        \A k \in Kinds : Cardinality(Serving(k)) <= 1

----------------------------------------------------------------------------
(* C31: close(stopCh) *)

\* The global stopCh is a channel that is open.
StopChOpen == frame.cur > 0 /\ ~frame.ended[frame.cur]

\* C31: under every interleaving of StartOrContinue (also of concurrent
\* calls), SetNewConfig, Stop and the goroutines, no close(stopCh) is
\* applied to a nil or closed channel, and running is true exactly when
\* the global stopCh is a channel that is open.
C31_StopChClosedOnce ==
    frame.fn = "tasks" =>
        /\ ~frame.closePanic
        /\ running <=> StopChOpen

\* C31 happens: two channels have been closed, each once, and the store is
\* stopped.
C31_Witness ==
    /\ frame.fn = "tasks"
    /\ frame.cur = 2
    /\ frame.ended[1] /\ frame.ended[2]
    /\ ~running
    /\ ~frame.closePanic

----------------------------------------------------------------------------
(* C32: the flush and the interface map *)

\* C32: in every state the operations of the store reach, the flush of
\* the flusher or of Stop finds store.Interfaces initialised when it has a
\* cached NIC to roll up, so that it does not fail.
C32_FlushFindsInterfaceMap ==
    ~panicked =>
        /\ Keys(staticCache) # {} => ~store.Interfaces.nil
        /\ \A t \in TickTimes : ~flushCacheLocked(G, t).panicked

----------------------------------------------------------------------------
(* C33: the readers under mu.RLock *)

\* C33: a call of GetNetStatic, GetNetStaticBetween, GetTotalTraffic or
\* GetTotalTrafficBetween, which holds only the read lock, leaves the
\* store, the cache and the effective configuration as they are, in every
\* state, also when the store was never started.
C33_ReadersWriteNothing ==
    [][(\/ ReadGetNetStatic
        \/ ReadGetNetStaticBetween
        \/ ReadGetTotalTraffic
        \/ ReadGetTotalTrafficBetween) =>
          UNCHANGED <<store, staticCache, config>>]_vars

----------------------------------------------------------------------------
(* SpecWindow: the total of the monthly window across a reset instant *)

\* The deltas a behaviour samples.
MaxSampled == 4

\* --month-rotate 15: the reset instant after StartTime is the midnight of
\* 2023-11-15.
WindowFlags == [MonthRotate |-> 15, IncludeNics |-> <<>>, ExcludeNics |-> <<>>]
WindowReset == Date(2023, 11, 15)

\* The clock: two instants before the reset instant, the reset instant and
\* a detect interval later.
WindowClock ==
    {StartTime, StartTime + DefaultDetectInterval, WindowReset,
     WindowReset + DefaultDetectInterval}

\* The deltas sampled so far, each with the instant of its sampling.
Sampled(list) == [fn |-> "window", sampled |-> list]

\* The datum the sampling g -> g1 appended for the NIC n, as a sequence.
newDatum(g, g1, n) ==
    LET before == Get(g.staticCache, n)
        after == Get(g1.staticCache, n)
    IN  [k \in 1..(Len(after) - Len(before)) |->
            [name |-> n, at |-> after[Len(before) + k].Timestamp,
             Tx |-> after[Len(before) + k].Tx,
             Rx |-> after[Len(before) + k].Rx]]

\* The sampler's tick (static.go:254-257).
windowSample ==
    /\ ~panicked /\ running
    /\ Len(frame.sampled) < MaxSampled
    /\ \E io \in CoarseIO :
          LET g1 == sampleOnceLocked(G, io, now)
          IN  /\ Commit(g1)
              /\ frame' = Sampled(frame.sampled \o newDatum(G, g1, Eth0)
                                      \o newDatum(G, g1, Eth1))
    /\ UNCHANGED <<lastErr, now, diskFaulty, flags>>

\* The flusher's tick, taken and served at the present time
\* (static.go:268-273).
windowFlush ==
    /\ ~panicked /\ running
    /\ Commit(flushPurgeSave(G, now, "ok"))
    /\ UNCHANGED <<lastErr, now, diskFaulty, flags, frame>>

windowClock ==
    /\ \E t \in WindowClock :
          /\ t > now
          /\ \A u \in WindowClock : u > now => t <= u
          /\ now' = t
    /\ UNCHANGED <<running, store, config, staticCache, lastCounters, nicsMem,
                   res, file, bak, tmp, diskFaulty, panicked, lastErr, flags,
                   frame>>

InitWindow ==
    /\ InitStore
    /\ file = Absent
    /\ diskFaulty = FALSE
    /\ flags = WindowFlags
    /\ frame = Sampled(<<>>)

NextWindow ==
    \/ StartOrContinue
    \/ windowSample
    \/ windowFlush
    \/ windowClock

SpecWindow == InitWindow /\ [][NextWindow]_vars

\* What NetworkSpeed asks the store for (net.go:135-137).
WindowTotals ==
    GetTotalTrafficBetween(G, GetLastResetDate(flags.MonthRotate, now), now)

\* The sampled deltas of the NIC n that were sampled at or after the last
\* reset instant.
SinceReset(n) ==
    LET in(d) == d.name = n /\ d.at >= GetLastResetDate(flags.MonthRotate, now)
    IN  SelectSeq(frame.sampled, in)

\* C34: the total of the current window is, for each NIC, the sum of the
\* deltas sampled at or after the last reset instant: a delta sampled
\* before it is not counted, also when it is flushed after it, and a delta
\* sampled at or after it is counted.
C34_WindowCountsSinceReset ==
    (frame.fn = "window" /\ ~panicked) =>
        \A n \in Nic :
            LET total == IF n \in DOMAIN WindowTotals THEN WindowTotals[n]
                         ELSE TD(0, 0, 0)
            IN  /\ total.Tx = SumTx(SinceReset(n))
                /\ total.Rx = SumRx(SinceReset(n))

----------------------------------------------------------------------------
(* C35: the transport channel when StartTerminal returns *)

\* C35: whenever StartTerminal has returned, by the kill-switch refusal,
\* after newTerminalImpl failed, or after a session that ended, the
\* connection is closed.
C35_ReturnClosesTransport ==
    (frame.fn = "StartTerminal" /\ frame.main = "returned") => ~frame.connOpen

----------------------------------------------------------------------------
(* C36: the pty when the session has ended *)

\* C36: when StartTerminal has returned from a session in which a shell
\* was spawned, the child process has ended and the pty master file opened
\* for the session is closed.
C36_SessionEndClosesPty ==
    (frame.fn = "StartTerminal" /\ frame.main = "returned" /\ frame.spawned) =>
        /\ frame.shell = "dead"
        /\ ~frame.tty
====
